---------------------------- MODULE Spec2Model ----------------------------
(***************************************************************************)
(* ZeroENH V2 prompt enhancement engine (src/nodes/DJZ_ZeroENH_V2.py).     *)
(*                                                                         *)
(* Strings are sequences of one-character strings, so that tokenizing,     *)
(* substring tests, placeholder replacement, comma normalisation, stemming *)
(* and word counting are computed character by character as the code does. *)
(* 32-bit words are pairs <<high 16 bits, low 16 bits>>, so that xxh32 is  *)
(* computed exactly without leaving the range of the checker's integers.   *)
(***************************************************************************)
EXTENDS Integers, Sequences, FiniteSets, TLC

\* profile_cache: DJZZeroENHV2._profile_cache, the class-level dictionary of the
\* node; profiles_dir: the files of the profiles directory
VARIABLES profile, call, profile_cache, profiles_dir

vars == <<profile, call, profile_cache, profiles_dir>>

-----------------------------------------------------------------------------
(* Characters                                                              *)

\* ASCII 32..126 in code-point order (code 96, the backquote, cannot be written
\* in a string literal and is named instead; no modelled text contains it)
Printable ==
  <<
    " ", "!", "\"", "#", "$", "%", "&", "'", "(", ")", "*", "+", ",", "-", ".", "/",
    "0", "1", "2", "3", "4", "5", "6", "7", "8", "9", ":", ";", "<", "=", ">", "?",
    "@", "A", "B", "C", "D", "E", "F", "G", "H", "I", "J", "K", "L", "M", "N", "O",
    "P", "Q", "R", "S", "T", "U", "V", "W", "X", "Y", "Z", "[", "\\", "]", "^", "_",
    "grave", "a", "b", "c", "d", "e", "f", "g", "h", "i", "j", "k", "l", "m", "n", "o",
    "p", "q", "r", "s", "t", "u", "v", "w", "x", "y", "z", "{", "|", "}", "~"
  >>

Tab == "\t"

Chars == {Printable[i] : i \in 1..Len(Printable)} \cup {Tab}

\* the values of str. The operations that Python composes or iterates are written
\* as functions on Str: like a Python call, a function application evaluates its
\* arguments before its body
Str == Seq(Chars)

\* ord(c)
Ord[c \in Chars] ==
  IF c = Tab THEN 9 ELSE 31 + (CHOOSE i \in 1..Len(Printable) : Printable[i] = c)

\* str.lower() on one character
LowerChar[c \in Chars] ==
  IF Ord[c] >= 65 /\ Ord[c] <= 90 THEN Printable[Ord[c] + 32 - 31] ELSE c

\* str.isspace() on one character
IsSpace(c) == c \in {" ", Tab}

-----------------------------------------------------------------------------
(* 32-bit words as <<hi, lo>>                                              *)

Half == 0..65535
Word32 == Half \X Half

W32(n) == <<n \div 65536, n % 65536>>

\* the 32-bit operations are functions: TLC evaluates the argument of a
\* function application before the body, which keeps evaluation shallow
Add32[a \in Word32, b \in Word32] ==
  <<(a[1] + b[1] + ((a[2] + b[2]) \div 65536)) % 65536, (a[2] + b[2]) % 65536>>

\* full 32-bit product of two 16-bit numbers
Mul16[a \in Half, b \in Half] ==
  LET p1 == (a \div 256) * b
      p0 == (a % 256) * b
      lo == ((p1 % 256) * 256) + (p0 % 65536)
  IN  <<((p1 \div 256) + (p0 \div 65536) + (lo \div 65536)) % 65536, lo % 65536>>

\* product modulo 2^32
Mul32[a \in Word32, b \in Word32] ==
  <<(Mul16[a[2], b[2]][1] + Mul16[a[1], b[2]][2] + Mul16[a[2], b[1]][2]) % 65536,
    Mul16[a[2], b[2]][2]>>

\* 2^n for n in 0..16
Pow2(n) == <<1, 2, 4, 8, 16, 32, 64, 128, 256, 512, 1024, 2048, 4096, 8192,
             16384, 32768, 65536>>[n + 1]

\* rotate left by r < 32
Rotl32[a \in Word32, r \in 0..31] ==
  LET b == IF r >= 16 THEN <<a[2], a[1]>> ELSE a
      k == r % 16
  IN  <<((b[1] * Pow2(k)) % 65536) + (b[2] \div Pow2(16 - k)),
        ((b[2] * Pow2(k)) % 65536) + (b[1] \div Pow2(16 - k))>>

\* logical shift right by r <= 16
Shr32[a \in Word32, r \in 0..16] ==
  IF r = 16 THEN <<0, a[1]>>
  ELSE <<a[1] \div Pow2(r), ((a[1] % Pow2(r)) * Pow2(16 - r)) + (a[2] \div Pow2(r))>>

\* x ^ y on 4-bit numbers
XorNibble ==
  [x \in 0..15 |-> [y \in 0..15 |->
     (((x + y) % 2)
      + 2 * (((x \div 2) + (y \div 2)) % 2))
      + (4 * (((x \div 4) + (y \div 4)) % 2)
      + 8 * (((x \div 8) + (y \div 8)) % 2))]]

\* x ^ y on 16-bit numbers
XorBits[x \in Half, y \in Half] ==
  (XorNibble[x % 16][y % 16]
   + 16 * XorNibble[(x \div 16) % 16][(y \div 16) % 16])
  + (256 * XorNibble[(x \div 256) % 16][(y \div 256) % 16]
   + 4096 * XorNibble[x \div 4096][y \div 4096])

Xor32[a \in Word32, b \in Word32] == <<XorBits[a[1], b[1]], XorBits[a[2], b[2]]>>

\* a < b on 32-bit words
Less32(a, b) == a[1] < b[1] \/ (a[1] = b[1] /\ a[2] < b[2])

\* h % n for a 32-bit word h and 0 < n < 2^15
Mod32(h, n) == (((h[1] % n) * (65536 % n)) + (h[2] % n)) % n

\* struct.pack('<I', w)
LEBytes(w) == <<w[2] % 256, w[2] \div 256, w[1] % 256, w[1] \div 256>>

\* the little-endian 32-bit word at bytes[i..i+3]
Read32LE(bytes, i) ==
  <<(bytes[i + 3] * 256) + bytes[i + 2], (bytes[i + 1] * 256) + bytes[i]>>

-----------------------------------------------------------------------------
(* xxh32, the hash the engine takes all its choices from                   *)

PRIME32_1 == <<40503, 31153>>
PRIME32_2 == <<34283, 51831>>
PRIME32_3 == <<49842, 44605>>
PRIME32_4 == <<10196, 60207>>
PRIME32_5 == <<5718, 26545>>

Bytes == Seq(0..255)

\* 0 - a modulo 2^32
Neg32(a) == Add32[Xor32[a, <<65535, 65535>>], <<0, 1>>]

XXRound[acc \in Word32, w \in Word32] ==
  Mul32[Rotl32[Add32[acc, Mul32[w, PRIME32_2]], 13], PRIME32_1]

\* the four accumulators after the 16-byte stripes starting at byte i
XXStripes[bytes \in Bytes, i \in Nat, v \in Seq(Word32)] ==
  IF i + 15 > Len(bytes) THEN v
  ELSE XXStripes[bytes, i + 16,
         <<XXRound[v[1], Read32LE(bytes, i)],
           XXRound[v[2], Read32LE(bytes, i + 4)],
           XXRound[v[3], Read32LE(bytes, i + 8)],
           XXRound[v[4], Read32LE(bytes, i + 12)]>>]

XXTail[bytes \in Bytes, i \in Nat, h \in Word32] ==
  IF i + 3 <= Len(bytes)
  THEN XXTail[bytes, i + 4,
         Mul32[Rotl32[Add32[h, Mul32[Read32LE(bytes, i), PRIME32_3]], 17], PRIME32_4]]
  ELSE IF i <= Len(bytes)
  THEN XXTail[bytes, i + 1,
         Mul32[Rotl32[Add32[h, Mul32[<<0, bytes[i]>>, PRIME32_5]], 11], PRIME32_1]]
  ELSE h

XXMix[h \in Word32, r \in 0..16, prime \in Word32] == Mul32[Xor32[h, Shr32[h, r]], prime]

XXAvalanche[h \in Word32] ==
  LET h2 == XXMix[XXMix[h, 15, PRIME32_2], 13, PRIME32_3]
  IN  Xor32[h2, Shr32[h2, 16]]

\* the accumulator the tail starts from
XXStart[bytes \in Bytes, seed \in Word32] ==
  LET v == XXStripes[bytes, 1,
              <<Add32[Add32[seed, PRIME32_1], PRIME32_2], Add32[seed, PRIME32_2],
                seed, Add32[seed, Neg32(PRIME32_1)]>>]
  IN  IF Len(bytes) >= 16
      THEN Add32[Add32[Rotl32[v[1], 1], Rotl32[v[2], 7]],
                 Add32[Rotl32[v[3], 12], Rotl32[v[4], 18]]]
      ELSE Add32[seed, PRIME32_5]

\* xxhash.xxh32(bytes, seed).intdigest()
xxh32(bytes, seed) ==
  XXAvalanche[XXTail[bytes, (16 * (Len(bytes) \div 16)) + 1,
                     Add32[XXStart[bytes, seed], W32(Len(bytes))]]]

\* str.encode() of an ASCII string
Encode(s) == [i \in 1..Len(s) |-> Ord[s[i]]]

\* enhancement_hash(seed, input_hash, coord)
enhancement_hash(seed, input_hash, coord) ==
  xxh32(LEBytes(input_hash) \o LEBytes(W32(coord)), W32(seed))

\* hash_to_index(h, pool_size), for pool_size > 0
hash_to_index(h, pool_size) == Mod32(h, pool_size)

-----------------------------------------------------------------------------
(* Strings: the str methods the engine uses                                *)

\* str.lower()
Lower(s) == [i \in 1..Len(s) |-> LowerChar[s[i]]]

\* p occurs in s at index i
StartsWithAt(s, i, p) ==
  /\ i >= 1
  /\ i + Len(p) - 1 <= Len(s)
  /\ \A k \in 1..Len(p) : s[i + k - 1] = p[k]

\* str.endswith(p)
EndsWith(s, p) == Len(p) <= Len(s) /\ StartsWithAt(s, Len(s) - Len(p) + 1, p)

\* p in s
Contains(s, p) == \E i \in 1..(Len(s) - Len(p) + 1) : StartsWithAt(s, i, p)

\* the elements of a list
Elems(lst) == {lst[i] : i \in 1..Len(lst)}

\* the indices of s, in increasing order
Indices(s) == [i \in 1..Len(s) |-> i]

\* the concatenation of the lists in `pieces`, none of which contains `pad`:
\* the pieces are laid out in cells of one width and the padding is dropped
\* (pieces \o <<>> is pieces, evaluated once)
Concat(pieces, pad) ==
  LET parts == pieces \o <<>>
      lens  == {Len(parts[k]) : k \in 1..Len(parts)}
      width == IF lens = {} THEN 0 ELSE CHOOSE m \in lens : \A l \in lens : l <= m
      cells == [j \in 1..(Len(parts) * width) |->
                  IF ((j - 1) % width) + 1 <= Len(parts[((j - 1) \div width) + 1])
                  THEN parts[((j - 1) \div width) + 1][((j - 1) % width) + 1]
                  ELSE pad]
      Filled(x) == x # pad
  IN  SelectSeq(cells, Filled)

\* the index one past the whitespace run that starts at i
SkipSpace(s, i) ==
  IF i > Len(s) THEN i
  ELSE CHOOSE j \in i..(Len(s) + 1) :
         /\ \A k \in i..(j - 1) : IsSpace(s[k])
         /\ (j = Len(s) + 1 \/ ~IsSpace(s[j]))

\* the index where the whitespace run that ends just before i starts
SpaceStart(s, i) ==
  IF i <= 1 THEN i
  ELSE CHOOSE j \in 1..i :
         /\ \A k \in j..(i - 1) : IsSpace(s[k])
         /\ (j = 1 \/ ~IsSpace(s[j - 1]))

LStrip(s) == SubSeq(s, SkipSpace(s, 1), Len(s))

RStrip(s) == SubSeq(s, 1, SpaceStart(s, Len(s) + 1) - 1)

\* str.strip()
Strip(s) == RStrip(LStrip(s))

\* str.rstrip(",")
RStripComma(s) ==
  LET last == CHOOSE j \in 0..Len(s) :
                /\ \A k \in (j + 1)..Len(s) : s[k] = ","
                /\ (j = 0 \/ s[j] # ",")
  IN  SubSeq(s, 1, last)

\* str.split(c) for a one-character separator c
Split(s, c) ==
  LET IsSep(i) == s[i] = c
      seps     == SelectSeq(Indices(s), IsSep)
  IN  [k \in 1..(Len(seps) + 1) |->
         SubSeq(s, IF k = 1 THEN 1 ELSE seps[k - 1] + 1,
                   IF k = Len(seps) + 1 THEN Len(s) ELSE seps[k] - 1)]

\* str.split(): the maximal runs of non-whitespace
Words(s) ==
  LET IsStart(i) == ~IsSpace(s[i]) /\ (i = 1 \/ IsSpace(s[i - 1]))
      IsEnd(i)   == ~IsSpace(s[i]) /\ (i = Len(s) \/ IsSpace(s[i + 1]))
      starts     == SelectSeq(Indices(s), IsStart)
      ends       == SelectSeq(Indices(s), IsEnd)
  IN  [k \in 1..Len(starts) |-> SubSeq(s, starts[k], ends[k])]

\* sep.join(parts), for non-empty sep
Join(parts, sep) ==
  Concat([j \in 1..((2 * Len(parts)) - 1) |->
            IF j % 2 = 1 THEN parts[(j + 1) \div 2] ELSE sep], "")

\* the first index from i on where old occurs in s, or 0
NextMatch(s, old, i) ==
  IF \E j \in i..Len(s) : StartsWithAt(s, j, old)
  THEN CHOOSE j \in i..Len(s) :
         /\ StartsWithAt(s, j, old)
         /\ \A k \in i..(j - 1) : ~StartsWithAt(s, k, old)
  ELSE 0

\* str.replace(old, new), old not empty: every occurrence, left to right
RECURSIVE ReplaceFrom(_, _, _, _)
ReplaceFrom(s, old, new, i) ==
  IF NextMatch(s, old, i) = 0 THEN SubSeq(s, i, Len(s))
  ELSE SubSeq(s, i, NextMatch(s, old, i) - 1) \o new
         \o ReplaceFrom(s, old, new, NextMatch(s, old, i) + Len(old))

Replace(s, old, new) == ReplaceFrom(s, old, new, 1)

\* a < b as Python compares str (by code point, a proper prefix first)
LessStr(a, b) ==
  \E i \in 1..Len(b) :
     /\ \A k \in 1..(i - 1) : k <= Len(a) /\ a[k] = b[k]
     /\ (i > Len(a) \/ Ord[a[i]] < Ord[b[i]])

\* sorted(lst) for a list of str (insertion into the sorted prefix)
RECURSIVE InsertStr(_, _)
InsertStr(sorted, x) ==
  IF sorted = <<>> THEN <<x>>
  ELSE IF LessStr(x, Head(sorted)) THEN <<x>> \o sorted
  ELSE <<Head(sorted)>> \o InsertStr(Tail(sorted), x)

RECURSIVE SortedStr(_)
SortedStr(lst) ==
  IF lst = <<>> THEN <<>>
  ELSE InsertStr(SortedStr(SubSeq(lst, 1, Len(lst) - 1)), lst[Len(lst)])

-----------------------------------------------------------------------------
(* Category names and module constants                                     *)

Subject == <<"s", "u", "b", "j", "e", "c", "t">>
Action == <<"a", "c", "t", "i", "o", "n">>
Environment == <<"e", "n", "v", "i", "r", "o", "n", "m", "e", "n", "t">>
Style == <<"s", "t", "y", "l", "e">>
Lighting == <<"l", "i", "g", "h", "t", "i", "n", "g">>
Camera == <<"c", "a", "m", "e", "r", "a">>
Details == <<"d", "e", "t", "a", "i", "l", "s">>
Mood == <<"m", "o", "o", "d">>
Unclassified == <<"u", "n", "c", "l", "a", "s", "s", "i", "f", "i", "e", "d">>

ORDERED_CATEGORIES ==
  <<Subject, Action, Environment, Style, Lighting, Camera, Details, Mood>>
\* the fill rates in reverse order
INTENSITY_RATES_reversed == [minimal |-> 100, light |-> 75, moderate |-> 50, full |-> 25]

\* INTENSITY_RATES, in hundredths
INTENSITY_RATES ==
  [minimal |-> 25, light |-> 50, moderate |-> 75, full |-> 100]

Intensities == DOMAIN INTENSITY_RATES

-----------------------------------------------------------------------------
(* Phase 1: tokenization                                                   *)

\* where a match of \s+-\s+|\s+\|\s+ that starts at i ends (one past), or 0
SepEnd(s, i) ==
  IF ~IsSpace(s[i]) THEN 0
  ELSE LET j == SkipSpace(s, i)
       IN  IF /\ j + 1 <= Len(s)
              /\ s[j] \in {"-", "|"}
              /\ IsSpace(s[j + 1])
           THEN SkipSpace(s, j + 1)
           ELSE 0

\* the first index from i on where a separator match starts, or 0
NextSep(s, i) ==
  IF \E j \in i..Len(s) : SepEnd(s, j) # 0
  THEN CHOOSE j \in i..Len(s) :
         SepEnd(s, j) # 0 /\ \A k \in i..(j - 1) : SepEnd(s, k) = 0
  ELSE 0

\* re.split(r'\s+-\s+|\s+\|\s+', s), from index i on
ReSplitSep[s \in Str, i \in Nat] ==
  IF NextSep(s, i) = 0 THEN <<SubSeq(s, i, Len(s))>>
  ELSE <<SubSeq(s, i, NextSep(s, i) - 1)>> \o ReSplitSep[s, SepEnd(s, NextSep(s, i))]

\* the cleaned, non-empty sub-tokens of one comma-separated piece
CleanSubTokens[piece \in Str] ==
  LET subs        == ReSplitSep[piece, 1]
      NonEmpty(t) == t # <<>>
  IN  SelectSeq([k \in 1..Len(subs) |-> Strip(subs[k])], NonEmpty)

\* the tokenizer that splits on every hyphen and bar, inside words too
tokenize_any_hyphen(prompt) ==
  LET pieces      == Split(prompt, ",")
      on_hyphen   == Concat([k \in 1..Len(pieces) |-> Split(pieces[k], "-")], <<>>)
      on_bar      == Concat([k \in 1..Len(on_hyphen) |-> Split(on_hyphen[k], "|")], <<>>)
      NonEmpty(t) == t # <<>>
  IN  SelectSeq([k \in 1..Len(on_bar) |-> Strip(on_bar[k])], NonEmpty)

tokenize(prompt) ==
  LET pieces == Split(prompt, ",")
  IN  Concat([k \in 1..Len(pieces) |-> CleanSubTokens[pieces[k]]], <<>>)

-----------------------------------------------------------------------------
(* Phase 2: classification                                                 *)

\* The regular expressions of the profiles are sequences of items, between an
\* optional leading ^ and an optional trailing $. An item is an atom, optionally
\* followed by + or ?. An atom is a character, \s, \d, or a group (a|b|...) of
\* literal alternatives.
Digits == {"0", "1", "2", "3", "4", "5", "6", "7", "8", "9"}

\* the index just past the atom of the pattern that starts at i
AtomEnd(pattern, i) ==
  IF pattern[i] = "\\" THEN i + 2
  ELSE IF pattern[i] = "("
       THEN 1 + CHOOSE j \in i..Len(pattern) :
                   pattern[j] = ")" /\ \A k \in i..(j - 1) : pattern[k] # ")"
       ELSE i + 1

\* the positions of s just past one match of the atom pattern[i..] that starts
\* at a position of `from`
AtomStep(pattern, i, s, from) ==
  IF pattern[i] = "\\"
  THEN {k + 1 : k \in {k \in from : /\ k <= Len(s)
                                     /\ \/ pattern[i + 1] = "s" /\ IsSpace(s[k])
                                        \/ pattern[i + 1] = "d" /\ s[k] \in Digits}}
  ELSE IF pattern[i] = "("
       THEN LET alts == Split(SubSeq(pattern, i + 1, AtomEnd(pattern, i) - 2), "|")
            IN  {k + Len(alts[a]) : <<k, a>> \in
                   {ka \in from \X (1..Len(alts)) : StartsWithAt(s, ka[1], alts[ka[2]])}}
       ELSE {k + 1 : k \in {k \in from : k <= Len(s) /\ s[k] = pattern[i]}}

\* one or more matches of the atom, one after the other
AtomPlus[pattern \in Str, i \in Nat, s \in Str, from \in SUBSET Nat, reached \in SUBSET Nat] ==
  LET more == AtomStep(pattern, i, s, from) \ reached
  IN  IF more = {} THEN reached
      ELSE AtomPlus[pattern, i, s, more, reached \cup more]

\* the positions just past a match of the items pattern[i..last] that starts at
\* a position of `from`
MatchItems[pattern \in Str, i \in Nat, last \in Nat, s \in Str, from \in SUBSET Nat] ==
  IF i > last \/ from = {} THEN from
  ELSE LET j    == AtomEnd(pattern, i)
           mark == IF j <= last /\ pattern[j] \in {"+", "?"} THEN pattern[j] ELSE ""
           ends == IF mark = "+" THEN AtomPlus[pattern, i, s, from, {}]
                   ELSE IF mark = "?" THEN from \cup AtomStep(pattern, i, s, from)
                   ELSE AtomStep(pattern, i, s, from)
       IN  MatchItems[pattern, IF mark = "" THEN j ELSE j + 1, last, s, ends]

\* re.search(pattern, s), as a truth value
re_search(pattern, s) ==
  LET atStart == pattern # <<>> /\ Head(pattern) = "^"
      atEnd   == /\ pattern # <<>> /\ pattern[Len(pattern)] = "$"
                 /\ (Len(pattern) = 1 \/ pattern[Len(pattern) - 1] # "\\")
      first   == IF atStart THEN 2 ELSE 1
      last    == IF atEnd THEN Len(pattern) - 1 ELSE Len(pattern)
      ends    == MatchItems[pattern, first, last, s,
                            IF atStart THEN {1} ELSE 1..(Len(s) + 1)]
  IN  IF atEnd THEN Len(s) + 1 \in ends ELSE ends # {}

\* whether the rules of one category match the token
RulesMatch(rules, token_lower) ==
  \/ \E keyword \in rules.keywords : Contains(token_lower, keyword)
  \/ \E k \in 1..Len(rules.patterns) : re_search(rules.patterns[k], token_lower)

\* the categories a token satisfies, {"unclassified"} when it satisfies none (the
\* code returns them as a list in the order of the classification table; only
\* membership is used by the caller)
classify_token_multi(token, classification) ==
  LET categories ==
        {c \in DOMAIN classification : RulesMatch(classification[c], Lower(token))}
  IN  IF categories # {} THEN categories ELSE {Unclassified}

classify_all_tokens(tokens, classification) ==
  [cat \in Elems(ORDERED_CATEGORIES) \cup {Unclassified} |->
     LET In(t) == cat \in classify_token_multi(t, classification)
     IN  SelectSeq(tokens, In)]

-----------------------------------------------------------------------------
(* Phase 3: gaps and rules                                                 *)

\* all_pools - present: the set find_gaps turns into a list
GapSet(classified, pools) ==
  DOMAIN pools \ {k \in DOMAIN classified : classified[k] # <<>> /\ k # Unclassified}

\* list(S): the elements of a set in an order the language does not fix
Listings(S) ==
  {lst \in [1..Cardinality(S) -> S] : \A i, j \in 1..Cardinality(S) :
                                         lst[i] = lst[j] => i = j}

\* find_gaps, given list(all_pools - present)
find_gaps_unsorted(listed) == listed

find_gaps(listed) == SortedStr(listed)

\* the policy filter that keeps the optional gaps at every intensity
apply_category_rules_optional_always(gaps, rules, intensity) ==
  LET Keep(gap) == gap \in rules.mandatory \cup rules.standard \cup rules.optional
  IN  SelectSeq(gaps, Keep)

apply_category_rules(gaps, rules, intensity) ==
  LET Keep(gap) ==
        \/ gap \in rules.mandatory
        \/ gap \in rules.standard
        \/ (gap \in rules.optional /\ intensity \in {"moderate", "full"})
  IN  SelectSeq(gaps, Keep)

\* list.sort(key=score) on (gap, score) pairs: stable
RECURSIVE InsertScored(_, _)
InsertScored(sorted, x) ==
  IF sorted = <<>> THEN <<x>>
  ELSE IF Less32(x[2], Head(sorted)[2]) THEN <<x>> \o sorted
  ELSE <<Head(sorted)>> \o InsertScored(Tail(sorted), x)

RECURSIVE SortScored(_)
SortScored(lst) ==
  IF lst = <<>> THEN <<>>
  ELSE InsertScored(SortScored(SubSeq(lst, 1, Len(lst) - 1)), lst[Len(lst)])

Max(a, b) == IF a >= b THEN a ELSE b
Min(a, b) == IF a <= b THEN a ELSE b

\* the thinning that scores the gap at 0-based position i with 2000 + i + 1
select_gaps_to_fill_from_one(seed, input_hash, gaps, intensity) ==
  LET rate        == INTENSITY_RATES[intensity]
      num_to_fill == Max(1, (Len(gaps) * rate) \div 100)
      gap_scores  == [i \in 1..Len(gaps) |->
                        <<gaps[i], enhancement_hash(seed, input_hash, 2000 + i)>>]
                     \o <<>>
      ranked      == SortScored(gap_scores)
  IN  IF rate >= 100 THEN gaps
      ELSE IF num_to_fill >= Len(gaps) THEN gaps
      ELSE [i \in 1..num_to_fill |-> ranked[i][1]]

select_gaps_to_fill(seed, input_hash, gaps, intensity) ==
  LET rate        == INTENSITY_RATES[intensity]
      num_to_fill == Max(1, (Len(gaps) * rate) \div 100)
      gap_scores  == [i \in 1..Len(gaps) |->
                        <<gaps[i], enhancement_hash(seed, input_hash, 2000 + (i - 1))>>]
                     \o <<>>
      ranked      == SortScored(gap_scores)
  IN  IF rate >= 100 THEN gaps
      ELSE IF num_to_fill >= Len(gaps) THEN gaps
      ELSE [i \in 1..num_to_fill |-> ranked[i][1]]

-----------------------------------------------------------------------------
(* Phase 4: enhancement selection with anti-pairing                        *)

\* the concatenation of classified.values()
ExistingTokens(classified) ==
  LET keys == ORDERED_CATEGORIES \o <<Unclassified>>
  IN  Concat([i \in 1..Len(keys) |-> classified[keys[i]]], <<>>)

build_forbidden_set(existing_tokens, anti_pairs) ==
  {Lower(word) : word \in
     UNION {anti_pairs[trigger] : trigger \in
              {t \in DOMAIN anti_pairs :
                 \E k \in 1..Len(existing_tokens) :
                    Contains(Lower(existing_tokens[k]), t)}}}

\* any(f in selection.lower() for f in forbidden)
Conflicts(selection, forbidden) ==
  \E f \in forbidden : Contains(Lower(selection), f)

\* the while loop of select_with_antipair_check, from `attempts` on
AntiPairSearch[seed \in Nat, input_hash \in Word32, conflict_coord \in Nat, pool \in Seq(Str), forbidden \in SUBSET Str, attempts \in Nat, selection \in Str] ==
  IF attempts >= Min(Len(pool), 50) THEN selection
  ELSE LET h2  == enhancement_hash(seed, input_hash, conflict_coord + attempts)
           alt == pool[hash_to_index(h2, Len(pool)) + 1]
       IN  IF ~Conflicts(alt, forbidden) THEN alt
           ELSE AntiPairSearch[seed, input_hash, conflict_coord, pool, forbidden,
                               attempts + 1, selection]

\* select_with_antipair_check, for a non-empty pool
select_with_antipair_check[seed \in Nat, input_hash \in Word32, category_idx \in Nat, pool \in Seq(Str), forbidden \in SUBSET Str] ==
  LET h         == enhancement_hash(seed, input_hash, category_idx)
      selection == pool[hash_to_index(h, Len(pool)) + 1]
  IN  IF Conflicts(selection, forbidden)
      THEN AntiPairSearch[seed, input_hash, category_idx + 1000, pool, forbidden,
                          0, selection]
      ELSE selection

-----------------------------------------------------------------------------
(* Phase 5: template selection and formatting                              *)

\* select_template, for a non-empty list of templates
select_template(seed, input_hash, templates) ==
  templates[hash_to_index(enhancement_hash(seed, input_hash, 0), Len(templates)) + 1]

\* the values of the components dict
Components == [Elems(ORDERED_CATEGORIES) -> Str]

\* the loop over components.items(): each placeholder replaced by its value
\* (or removed), in the order of ORDERED_CATEGORIES, from the k-th key on
Substitute[result \in Str, components \in Components, k \in 1..(Len(ORDERED_CATEGORIES) + 1)] ==
  IF k > Len(ORDERED_CATEGORIES) THEN result
  ELSE Substitute[Replace(result, <<"{">> \o ORDERED_CATEGORIES[k] \o <<"}">>,
                          components[ORDERED_CATEGORIES[k]]),
                  components, k + 1]

\* re.sub(r'\s+', ' ', s): of each whitespace run one space is kept
CollapseSpaces[s \in Str] ==
  LET Kept(i) == ~IsSpace(s[i]) \/ i = 1 \/ ~IsSpace(s[i - 1])
      kept    == SelectSeq(Indices(s), Kept)
  IN  [k \in 1..Len(kept) |-> IF IsSpace(s[kept[k]]) THEN " " ELSE s[kept[k]]] \o <<>>

\* the whitespace run around index i has a comma next to it
TouchesComma(s, i) ==
  \/ SkipSpace(s, i) <= Len(s) /\ s[SkipSpace(s, i)] = ","
  \/ SpaceStart(s, i) > 1 /\ s[SpaceStart(s, i) - 1] = ","

\* re.sub(r'\s*,\s*', ', ', s): every comma becomes ', ' and the whitespace
\* around it goes
NormalizeCommas[s \in Str] ==
  Concat([i \in 1..Len(s) |->
            IF s[i] = "," THEN <<",", " ">>
            ELSE IF IsSpace(s[i]) /\ TouchesComma(s, i) THEN <<>>
            ELSE <<s[i]>>], "")

\* index i follows a comma, with nothing but whitespace between
FollowsComma(s, i) ==
  SpaceStart(s, i) > 1 /\ s[SpaceStart(s, i) - 1] = ","

\* re.sub(r'(,\s*)+', ', ', s): a run of commas and the whitespace after them
\* becomes one ', '
CollapseCommaRuns[s \in Str] ==
  Concat([i \in 1..Len(s) |->
            IF s[i] = "," THEN (IF FollowsComma(s, i) THEN <<>> ELSE <<",", " ">>)
            ELSE IF IsSpace(s[i]) /\ FollowsComma(s, i) THEN <<>>
            ELSE <<s[i]>>], "")

\* re.sub(r'^\s*,\s*', '', s)
StripLeadingComma[s \in Str] ==
  LET j == SkipSpace(s, 1)
  IN  IF j <= Len(s) /\ s[j] = "," THEN SubSeq(s, SkipSpace(s, j + 1), Len(s)) ELSE s

\* re.sub(r'\s*,\s*$', '', s)
StripTrailingComma[s \in Str] ==
  LET c == SpaceStart(s, Len(s) + 1) - 1
  IN  IF c >= 1 /\ s[c] = "," THEN SubSeq(s, 1, SpaceStart(s, c) - 1) ELSE s

AtmosphereWord == <<"a", "t", "m", "o", "s", "p", "h", "e", "r", "e">>
SceneWord == <<"s", "c", "e", "n", "e">>

\* re.sub(r'\s*atmosphere\s*$', ' atmosphere', s)
FixAtmosphere[s \in Str] ==
  LET e == SpaceStart(s, Len(s) + 1)
      a == e - Len(AtmosphereWord)
  IN  IF a >= 1 /\ StartsWithAt(s, a, AtmosphereWord)
      THEN SubSeq(s, 1, SpaceStart(s, a) - 1) \o <<" ">> \o AtmosphereWord
      ELSE s

\* re.sub(r'^\s*scene\s*,', '', s)
RemoveOrphanScene[s \in Str] ==
  LET j == SkipSpace(s, 1)
      k == SkipSpace(s, j + Len(SceneWord))
  IN  IF StartsWithAt(s, j, SceneWord) /\ k <= Len(s) /\ s[k] = ","
      THEN SubSeq(s, k + 1, Len(s))
      ELSE s

HasCommaPair(s) == Contains(s, <<",", ",">>) \/ Contains(s, <<",", " ", ",">>)

\* one pass of the body of the final cleanup loop
CommaLoopBody(s) == Replace(Replace(s, <<",", ",">>, <<",">>), <<",", " ", ",">>, <<",">>)

\* the final cleanup loop, run for at most `budget` passes: the text it ends with
\* and whether its condition was false by then
CommaLoop[s \in Str, budget \in Nat] ==
  IF ~HasCommaPair(s) THEN [result |-> s, halts |-> TRUE]
  ELSE IF budget = 0 THEN [result |-> s, halts |-> FALSE]
  ELSE CommaLoop[CommaLoopBody(s), budget - 1]

\* the regular-expression cleanup of safe_format_template, in its order
CleanArtifacts[s \in Str] ==
  Strip(RemoveOrphanScene[FixAtmosphere[StripTrailingComma[StripLeadingComma[
    CollapseCommaRuns[NormalizeCommas[CollapseSpaces[s]]]]]]])

\* the final cleanup loop on a cleaned text; a pass removes at least one
\* character, so len(cleaned) passes are enough for it to end
FinalCommaLoop[cleaned \in Str] == CommaLoop[cleaned, Len(cleaned)]

\* safe_format_template: [result, halts]
safe_format_template(template, components) ==
  FinalCommaLoop[CleanArtifacts[Substitute[template, components, 1]]]

-----------------------------------------------------------------------------
(* Phase 6: merging and deduplication                                      *)

CommaSpace == <<",", " ">>

merge_with_unclassified(enhanced, unclassified) ==
  IF unclassified = <<>> THEN enhanced
  ELSE enhanced \o CommaSpace \o Join(unclassified, CommaSpace)

Suffixes == <<<<"i", "n", "g">>, <<"e", "d">>, <<"l", "y">>, <<"s">>>>

\* the stemming that goes on stripping after a suffix was removed
RECURSIVE StripSuffix_again(_, _)
StripSuffix_again(stem, k) ==
  IF k > Len(Suffixes) THEN stem
  ELSE IF EndsWith(stem, Suffixes[k]) /\ Len(stem) > Len(Suffixes[k]) + 2
  THEN StripSuffix_again(SubSeq(stem, 1, Len(stem) - Len(Suffixes[k])), 1)
  ELSE StripSuffix_again(stem, k + 1)

\* the stem of a segment: the first suffix that applies is removed
RECURSIVE StripSuffix(_, _)
StripSuffix(stem, k) ==
  IF k > Len(Suffixes) THEN stem
  ELSE IF EndsWith(stem, Suffixes[k]) /\ Len(stem) > Len(Suffixes[k]) + 2
  THEN SubSeq(stem, 1, Len(stem) - Len(Suffixes[k]))
  ELSE StripSuffix(stem, k + 1)

Stem(token) == StripSuffix(Lower(token), 1)

WordSet(s) == Elems(Words(s))

\* len(overlap) >= min(len(words), len(seen_words)) * 0.7
Overlaps(words, seen_words) ==
  10 * Cardinality(words \cap seen_words)
    >= 7 * Min(Cardinality(words), Cardinality(seen_words))

IsDuplicate(stem, seen_stems) ==
  \/ stem \in seen_stems
  \/ /\ WordSet(stem) # {}
     /\ \E seen \in seen_stems : Overlaps(WordSet(stem), WordSet(seen))

\* the loop of deduplicate_prompt over tokens[k..]
DedupFrom[tokens \in Seq(Str), k \in Nat, seen_stems \in SUBSET Str, final_tokens \in Seq(Str)] ==
  IF k > Len(tokens) THEN final_tokens
  ELSE IF IsDuplicate(Stem(tokens[k]), seen_stems)
  THEN DedupFrom[tokens, k + 1, seen_stems, final_tokens]
  ELSE DedupFrom[tokens, k + 1, seen_stems \cup {Stem(tokens[k])},
                 Append(final_tokens, tokens[k])]

\* [t.strip() for t in prompt.split(",") if t.strip()]
Segments(prompt) ==
  LET pieces == Split(prompt, ",")
      NonEmpty(t) == t # <<>>
  IN  SelectSeq([k \in 1..Len(pieces) |-> Strip(pieces[k])], NonEmpty)

\* the loop of deduplicate_prompt, were the stem of a dropped segment remembered
\* as well
DedupFromAllSeen[tokens \in Seq(Str), k \in Nat, seen_stems \in SUBSET Str, final_tokens \in Seq(Str)] ==
  IF k > Len(tokens) THEN final_tokens
  ELSE DedupFromAllSeen[tokens, k + 1, seen_stems \cup {Stem(tokens[k])},
                        IF IsDuplicate(Stem(tokens[k]), seen_stems) THEN final_tokens
                        ELSE Append(final_tokens, tokens[k])]

deduplicate_prompt_all_seen(prompt) ==
  Join(DedupFromAllSeen[Segments(prompt), 1, {}, <<>>], CommaSpace)

\* the deduplication that returns the stems it compared in place of the segments
DedupStemsFrom[tokens \in Seq(Str), k \in Nat, seen_stems \in SUBSET Str, final_tokens \in Seq(Str)] ==
  IF k > Len(tokens) THEN final_tokens
  ELSE IF IsDuplicate(Stem(tokens[k]), seen_stems)
  THEN DedupStemsFrom[tokens, k + 1, seen_stems, final_tokens]
  ELSE DedupStemsFrom[tokens, k + 1, seen_stems \cup {Stem(tokens[k])},
                      Append(final_tokens, Stem(tokens[k]))]

deduplicate_prompt_stems(prompt) ==
  Join(DedupStemsFrom[Segments(prompt), 1, {}, <<>>], CommaSpace)

deduplicate_prompt(prompt) ==
  Join(DedupFrom[Segments(prompt), 1, {}, <<>>], CommaSpace)

-----------------------------------------------------------------------------
(* Phase 7: length enforcement                                             *)

\* the truncation that keeps one word more than the limit
enforce_length_limit_one_more(prompt, max_words) ==
  LET words == Words(prompt)
  IN  IF Len(words) <= max_words THEN prompt
      ELSE RStrip(RStripComma(Join(SubSeq(words, 1, max_words + 1), <<" ">>)))

\* the truncation without rstrip(',')
enforce_length_limit_keep_comma(prompt, max_words) ==
  LET words == Words(prompt)
  IN  IF Len(words) <= max_words THEN prompt
      ELSE RStrip(Join(SubSeq(words, 1, max_words), <<" ">>))

\* the truncation that keeps the last max_words words
enforce_length_limit_keep_tail(prompt, max_words) ==
  LET words == Words(prompt)
  IN  IF Len(words) <= max_words THEN prompt
      ELSE RStrip(RStripComma(Join(SubSeq(words, Len(words) - max_words + 1, Len(words)),
                                   <<" ">>)))

enforce_length_limit(prompt, max_words) ==
  LET words == Words(prompt)
  IN  IF Len(words) <= max_words THEN prompt
      ELSE RStrip(RStripComma(Join(SubSeq(words, 1, max_words), <<" ">>)))

-----------------------------------------------------------------------------
(* The main function, stage by stage                                       *)

\* the emptiness test without the strip()
IsBlankNoStrip(input_prompt) == input_prompt = <<>>

\* not input_prompt or not input_prompt.strip()
IsBlank(input_prompt) == input_prompt = <<>> \/ Strip(input_prompt) = <<>>

\* the pool test without the emptiness check
PoolUsableNoEmptyCheck(gap, pools) == gap \in DOMAIN pools

\* gap in pools and pools[gap]
PoolUsable(gap, pools) == gap \in DOMAIN pools /\ pools[gap] # <<>>

\* the position of gap in sorted(gaps), from 1: its category coordinate
CategoryCoord(gap, gaps) ==
  CHOOSE i \in 1..Len(gaps) : SortedStr(gaps)[i] = gap

\* the gaps the selection loop indexes a pool for
GapsToSelect(gaps, pools) == {g \in Elems(gaps) : PoolUsable(g, pools)}

\* the selection loop, were the primary pick of each gap taken without the
\* anti-pair check
SelectEnhancementsFor_unchecked(seed, input_hash, gaps, pools, forbidden) ==
  [g \in GapsToSelect(gaps, pools) |->
     select_with_antipair_check[seed, input_hash, CategoryCoord(g, gaps), pools[g], {}]]

\* the enhancements dict after the selection loop
SelectEnhancementsFor(seed, input_hash, gaps, pools, forbidden) ==
  [g \in GapsToSelect(gaps, pools) |->
     select_with_antipair_check[seed, input_hash, CategoryCoord(g, gaps),
                                pools[g], forbidden]]

\* the components dict
BuildComponentsFor(classified, enhancements) ==
  [category \in Elems(ORDERED_CATEGORIES) |->
     IF classified[category] # <<>> THEN Join(classified[category], CommaSpace)
     ELSE IF category \in DOMAIN enhancements THEN enhancements[category]
     ELSE <<>>]

-----------------------------------------------------------------------------
(* The profiles and prompts the calls are drawn from                       *)

\* a category outside ORDERED_CATEGORIES, as a custom profile may define
Weather == <<"w", "e", "a", "t", "h", "e", "r">>

\* keywords and patterns: "cat", "knight", ^a ; "paint", style$ ; "light", lit$ ; "4k"
BaseClassification ==
  (Subject :> [keywords |-> {<<"c", "a", "t">>, <<"k", "n", "i", "g", "h", "t">>}, patterns |-> <<<<"^", "a", " ">>>>]) @@
  (Style :> [keywords |-> {<<"p", "a", "i", "n", "t">>}, patterns |-> <<<<"s", "t", "y", "l", "e", "$">>>>]) @@
  (Lighting :> [keywords |-> {<<"l", "i", "g", "h", "t">>}, patterns |-> <<<<"l", "i", "t", "$">>>>]) @@
  (Details :> [keywords |-> {<<"4", "k">>}, patterns |-> <<>>])

\* the base table plus the custom category: "storm"
CustomClassification ==
  BaseClassification @@
  (Weather :> [keywords |-> {<<"s", "t", "o", "r", "m">>}, patterns |-> <<>>])

\* a profile over the built-in categories
\*   template: {subject}, {style}, {lighting}, {details}, {mood} atmosphere
\*   template: {mood} scene, {subject}, {lighting}, {details}
\*   template: {style}, {subject}, {lighting}, {camera}, {details}
\*   pool style: "oil", "ink"
\*   pool lighting: "sun", "moon"
\*   pool camera: "wide"
\*   pool details: "4k", "sharp"
\*   pool mood: "calm", "sharp mood"
\*   anti-pair "cave": "Sun"
CompactProfile ==
  [templates |->
     <<<<"{", "s", "u", "b", "j", "e", "c", "t", "}", ",", " ", "{", "s", "t", "y", "l", "e", "}", ",", " ", "{", "l", "i", "g", "h", "t", "i", "n", "g", "}", ",", " ", "{", "d", "e", "t", "a", "i", "l", "s", "}", ",", " ", "{", "m", "o", "o", "d", "}", " ", "a", "t", "m", "o", "s", "p", "h", "e", "r", "e">>,
       <<"{", "m", "o", "o", "d", "}", " ", "s", "c", "e", "n", "e", ",", " ", "{", "s", "u", "b", "j", "e", "c", "t", "}", ",", " ", "{", "l", "i", "g", "h", "t", "i", "n", "g", "}", ",", " ", "{", "d", "e", "t", "a", "i", "l", "s", "}">>,
       <<"{", "s", "t", "y", "l", "e", "}", ",", " ", "{", "s", "u", "b", "j", "e", "c", "t", "}", ",", " ", "{", "l", "i", "g", "h", "t", "i", "n", "g", "}", ",", " ", "{", "c", "a", "m", "e", "r", "a", "}", ",", " ", "{", "d", "e", "t", "a", "i", "l", "s", "}">>>>,
   pools |->
     (Style :> <<<<"o", "i", "l">>, <<"i", "n", "k">>>>) @@
     (Lighting :> <<<<"s", "u", "n">>, <<"m", "o", "o", "n">>>>) @@
     (Camera :> <<<<"w", "i", "d", "e">>>>) @@
     (Details :> <<<<"4", "k">>, <<"s", "h", "a", "r", "p">>>>) @@
     (Mood :> <<<<"c", "a", "l", "m">>, <<"s", "h", "a", "r", "p", " ", "m", "o", "o", "d">>>>),
   classification |-> BaseClassification,
   rules |-> [mandatory |-> {Details},
             standard |-> {Style, Lighting, Camera},
             optional |-> {Mood}],
   anti_pairs |-> (<<"c", "a", "v", "e">> :> {<<"S", "u", "n">>})]

\* a profile with a custom category and an empty pool
\*   template: {subject}, {weather}, {style}, {details}
\*   pool weather: "rain"
\*   pool style: "oil", "ink"
\*   pool camera: (empty)
\*   pool details: "4k", "sharp"
CustomProfile ==
  [templates |->
     <<<<"{", "s", "u", "b", "j", "e", "c", "t", "}", ",", " ", "{", "w", "e", "a", "t", "h", "e", "r", "}", ",", " ", "{", "s", "t", "y", "l", "e", "}", ",", " ", "{", "d", "e", "t", "a", "i", "l", "s", "}">>>>,
   pools |->
     (Weather :> <<<<"r", "a", "i", "n">>>>) @@
     (Style :> <<<<"o", "i", "l">>, <<"i", "n", "k">>>>) @@
     (Camera :> <<>>) @@
     (Details :> <<<<"4", "k">>, <<"s", "h", "a", "r", "p">>>>),
   classification |-> CustomClassification,
   rules |-> [mandatory |-> {Details},
             standard |-> {Weather, Style, Camera},
             optional |-> {}],
   anti_pairs |-> <<>>]

\* a profile validate_profile rejects: no templates
\*   pool details: "4k"
BrokenProfile ==
  [templates |->
     <<>>,
   pools |->
     (Details :> <<<<"4", "k">>>>),
   classification |-> BaseClassification,
   rules |-> [mandatory |-> {Details},
             standard |-> {},
             optional |-> {}],
   anti_pairs |-> <<>>]

Profiles == {CompactProfile, CustomProfile, BrokenProfile}

\* ''
PromptEmpty == <<>>
\* ' \t'
PromptBlank == <<" ", Tab>>
\* 'a cat'
PromptCat == <<"a", " ", "c", "a", "t">>
\* 'cave cat, xyz'
PromptCave == <<"c", "a", "v", "e", " ", "c", "a", "t", ",", " ", "x", "y", "z">>
\* 'a cat, zap, big zap'
PromptZap == <<"a", " ", "c", "a", "t", ",", " ", "z", "a", "p", ",", " ", "b", "i", "g", " ", "z", "a", "p">>
\* 'moonlit cat - storm'
PromptStorm == <<"m", "o", "o", "n", "l", "i", "t", " ", "c", "a", "t", " ", "-", " ", "s", "t", "o", "r", "m">>
\* ', ,'
PromptCommas == <<",", " ", ",">>
\* 'noir style'
PromptNoir == <<"n", "o", "i", "r", " ", "s", "t", "y", "l", "e">>

\* 'cats, cats zap'
PromptCats == <<"c", "a", "t", "s", ",", " ", "c", "a", "t", "s", " ", "z", "a", "p">>

Prompts ==
  {PromptEmpty, PromptBlank, PromptCat, PromptCave, PromptZap,
   PromptStorm, PromptCommas, PromptNoir, PromptCats}

-----------------------------------------------------------------------------
(* The built-in vocabulary of the two versions of the node                 *)

\* DEFAULT_PROFILE of V2: its templates, pools, classification, rules and
\* anti_pairs (the other keys are not read by enhance_prompt)
DEFAULT_PROFILE ==
  [templates |->
     <<<<"{", "s", "u", "b", "j", "e", "c", "t", "}", ",", " ", "{", "e", "n", "v", "i", "r", "o", "n", "m", "e", "n", "t", "}", ",", " ", "{", "s", "t", "y", "l", "e", "}", ",", " ", "{", "l", "i", "g", "h", "t", "i", "n", "g", "}", ",", " ", "{", "c", "a", "m", "e", "r", "a", "}", ",", " ", "{", "d", "e", "t", "a", "i", "l", "s", "}", ",", " ", "{", "m", "o", "o", "d", "}", " ", "a", "t", "m", "o", "s", "p", "h", "e", "r", "e">>,
       <<"{", "s", "u", "b", "j", "e", "c", "t", "}", ",", " ", "{", "e", "n", "v", "i", "r", "o", "n", "m", "e", "n", "t", "}", ",", " ", "{", "s", "t", "y", "l", "e", "}", ",", " ", "{", "l", "i", "g", "h", "t", "i", "n", "g", "}", ",", " ", "{", "d", "e", "t", "a", "i", "l", "s", "}", ",", " ", "{", "m", "o", "o", "d", "}">>,
       <<"{", "s", "t", "y", "l", "e", "}", ",", " ", "{", "s", "u", "b", "j", "e", "c", "t", "}", ",", " ", "{", "e", "n", "v", "i", "r", "o", "n", "m", "e", "n", "t", "}", ",", " ", "{", "l", "i", "g", "h", "t", "i", "n", "g", "}", ",", " ", "{", "c", "a", "m", "e", "r", "a", "}", ",", " ", "{", "d", "e", "t", "a", "i", "l", "s", "}">>,
       <<"{", "c", "a", "m", "e", "r", "a", "}", ",", " ", "{", "s", "u", "b", "j", "e", "c", "t", "}", ",", " ", "{", "e", "n", "v", "i", "r", "o", "n", "m", "e", "n", "t", "}", ",", " ", "{", "s", "t", "y", "l", "e", "}", ",", " ", "{", "l", "i", "g", "h", "t", "i", "n", "g", "}", ",", " ", "{", "d", "e", "t", "a", "i", "l", "s", "}">>,
       <<"{", "s", "u", "b", "j", "e", "c", "t", "}", ",", " ", "{", "e", "n", "v", "i", "r", "o", "n", "m", "e", "n", "t", "}", ",", " ", "{", "s", "t", "y", "l", "e", "}", ",", " ", "{", "l", "i", "g", "h", "t", "i", "n", "g", "}", ",", " ", "{", "d", "e", "t", "a", "i", "l", "s", "}">>,
       <<"{", "m", "o", "o", "d", "}", " ", "s", "c", "e", "n", "e", ",", " ", "{", "s", "u", "b", "j", "e", "c", "t", "}", ",", " ", "{", "e", "n", "v", "i", "r", "o", "n", "m", "e", "n", "t", "}", ",", " ", "{", "s", "t", "y", "l", "e", "}", ",", " ", "{", "l", "i", "g", "h", "t", "i", "n", "g", "}", ",", " ", "{", "d", "e", "t", "a", "i", "l", "s", "}">>,
       <<"{", "s", "u", "b", "j", "e", "c", "t", "}", ",", " ", "{", "a", "c", "t", "i", "o", "n", "}", ",", " ", "{", "e", "n", "v", "i", "r", "o", "n", "m", "e", "n", "t", "}", ",", " ", "{", "s", "t", "y", "l", "e", "}", ",", " ", "{", "l", "i", "g", "h", "t", "i", "n", "g", "}", ",", " ", "{", "d", "e", "t", "a", "i", "l", "s", "}">>,
       <<"{", "s", "t", "y", "l", "e", "}", ",", " ", "{", "s", "u", "b", "j", "e", "c", "t", "}", ",", " ", "{", "e", "n", "v", "i", "r", "o", "n", "m", "e", "n", "t", "}", ",", " ", "{", "l", "i", "g", "h", "t", "i", "n", "g", "}", ",", " ", "{", "m", "o", "o", "d", "}", ",", " ", "{", "d", "e", "t", "a", "i", "l", "s", "}">>>>,
   pools |->
     (<<"s", "u", "b", "j", "e", "c", "t">> :>
        <<<<"a", " ", "w", "o", "m", "a", "n">>,
          <<"a", " ", "m", "a", "n">>,
          <<"a", " ", "y", "o", "u", "n", "g", " ", "w", "o", "m", "a", "n">>,
          <<"a", " ", "y", "o", "u", "n", "g", " ", "m", "a", "n">>,
          <<"a", "n", " ", "e", "l", "d", "e", "r", "l", "y", " ", "w", "o", "m", "a", "n">>,
          <<"a", "n", " ", "e", "l", "d", "e", "r", "l", "y", " ", "m", "a", "n">>,
          <<"a", " ", "c", "h", "i", "l", "d">>,
          <<"a", " ", "t", "e", "e", "n", "a", "g", "e", "r">>,
          <<"a", " ", "c", "o", "u", "p", "l", "e">>,
          <<"a", " ", "g", "r", "o", "u", "p", " ", "o", "f", " ", "p", "e", "o", "p", "l", "e">>,
          <<"a", " ", "k", "n", "i", "g", "h", "t">>,
          <<"a", " ", "w", "i", "z", "a", "r", "d">>,
          <<"a", " ", "w", "i", "t", "c", "h">>,
          <<"a", " ", "s", "o", "r", "c", "e", "r", "e", "s", "s">>,
          <<"a", " ", "n", "e", "c", "r", "o", "m", "a", "n", "c", "e", "r">>,
          <<"a", " ", "p", "a", "l", "a", "d", "i", "n">>,
          <<"a", " ", "r", "o", "g", "u", "e">>,
          <<"a", "n", " ", "a", "s", "s", "a", "s", "s", "i", "n">>,
          <<"a", " ", "r", "a", "n", "g", "e", "r">>,
          <<"a", " ", "b", "a", "r", "b", "a", "r", "i", "a", "n">>,
          <<"a", " ", "d", "r", "u", "i", "d">>,
          <<"a", " ", "m", "o", "n", "k">>,
          <<"a", " ", "b", "a", "r", "d">>,
          <<"a", " ", "w", "a", "r", "l", "o", "c", "k">>,
          <<"a", "n", " ", "e", "l", "v", "e", "n", " ", "a", "r", "c", "h", "e", "r">>,
          <<"a", " ", "d", "w", "a", "r", "v", "e", "n", " ", "s", "m", "i", "t", "h">>,
          <<"a", "n", " ", "o", "r", "c", " ", "w", "a", "r", "r", "i", "o", "r">>,
          <<"a", " ", "g", "o", "b", "l", "i", "n">>,
          <<"a", " ", "f", "a", "i", "r", "y">>,
          <<"a", " ", "n", "y", "m", "p", "h">>,
          <<"a", " ", "c", "y", "b", "o", "r", "g">>,
          <<"a", "n", " ", "a", "n", "d", "r", "o", "i", "d">>,
          <<"a", " ", "r", "o", "b", "o", "t">>,
          <<"a", " ", "m", "e", "c", "h", " ", "p", "i", "l", "o", "t">>,
          <<"a", "n", " ", "a", "s", "t", "r", "o", "n", "a", "u", "t">>,
          <<"a", " ", "s", "p", "a", "c", "e", " ", "m", "a", "r", "i", "n", "e">>,
          <<"a", "n", " ", "a", "l", "i", "e", "n">>,
          <<"a", " ", "h", "a", "c", "k", "e", "r">>,
          <<"a", " ", "s", "c", "i", "e", "n", "t", "i", "s", "t">>,
          <<"a", " ", "b", "o", "u", "n", "t", "y", " ", "h", "u", "n", "t", "e", "r">>,
          <<"a", " ", "s", "a", "m", "u", "r", "a", "i">>,
          <<"a", " ", "n", "i", "n", "j", "a">>,
          <<"a", " ", "v", "i", "k", "i", "n", "g">>,
          <<"a", " ", "g", "l", "a", "d", "i", "a", "t", "o", "r">>,
          <<"a", " ", "p", "h", "a", "r", "a", "o", "h">>,
          <<"a", " ", "g", "e", "i", "s", "h", "a">>,
          <<"a", " ", "s", "h", "o", "g", "u", "n">>,
          <<"a", " ", "r", "o", "m", "a", "n", " ", "s", "o", "l", "d", "i", "e", "r">>,
          <<"a", " ", "m", "e", "d", "i", "e", "v", "a", "l", " ", "p", "e", "a", "s", "a", "n", "t">>,
          <<"a", " ", "n", "o", "b", "l", "e">>,
          <<"a", " ", "d", "e", "t", "e", "c", "t", "i", "v", "e">>,
          <<"a", " ", "s", "o", "l", "d", "i", "e", "r">>,
          <<"a", " ", "p", "i", "l", "o", "t">>,
          <<"a", " ", "d", "o", "c", "t", "o", "r">>,
          <<"a", "n", " ", "a", "r", "t", "i", "s", "t">>,
          <<"a", " ", "m", "u", "s", "i", "c", "i", "a", "n">>,
          <<"a", " ", "d", "a", "n", "c", "e", "r">>,
          <<"a", "n", " ", "a", "t", "h", "l", "e", "t", "e">>,
          <<"a", " ", "c", "h", "e", "f">>,
          <<"a", " ", "p", "h", "o", "t", "o", "g", "r", "a", "p", "h", "e", "r">>,
          <<"a", " ", "d", "r", "a", "g", "o", "n">>,
          <<"a", " ", "p", "h", "o", "e", "n", "i", "x">>,
          <<"a", " ", "g", "r", "i", "f", "f", "i", "n">>,
          <<"a", " ", "u", "n", "i", "c", "o", "r", "n">>,
          <<"a", " ", "w", "e", "r", "e", "w", "o", "l", "f">>,
          <<"a", " ", "v", "a", "m", "p", "i", "r", "e">>,
          <<"a", " ", "d", "e", "m", "o", "n">>,
          <<"a", "n", " ", "a", "n", "g", "e", "l">>,
          <<"a", " ", "g", "h", "o", "s", "t">>,
          <<"a", " ", "s", "p", "i", "r", "i", "t">>,
          <<"a", " ", "w", "o", "l", "f">>,
          <<"a", " ", "l", "i", "o", "n">>,
          <<"a", " ", "t", "i", "g", "e", "r">>,
          <<"a", "n", " ", "e", "a", "g", "l", "e">>,
          <<"a", " ", "r", "a", "v", "e", "n">>,
          <<"a", " ", "s", "e", "r", "p", "e", "n", "t">>,
          <<"a", " ", "w", "h", "a", "l", "e">>,
          <<"a", " ", "s", "h", "a", "r", "k">>,
          <<"a", " ", "b", "u", "t", "t", "e", "r", "f", "l", "y">>,
          <<"a", " ", "s", "p", "i", "d", "e", "r">>,
          <<"a", " ", "m", "e", "c", "h", "a", "n", "i", "c", "a", "l", " ", "s", "p", "i", "d", "e", "r">>,
          <<"a", " ", "c", "l", "o", "c", "k", "w", "o", "r", "k", " ", "a", "u", "t", "o", "m", "a", "t", "o", "n">>,
          <<"a", " ", "g", "o", "l", "e", "m">>,
          <<"a", " ", "s", "e", "n", "t", "i", "e", "n", "t", " ", "s", "t", "a", "t", "u", "e">>,
          <<"a", " ", "l", "i", "v", "i", "n", "g", " ", "s", "h", "a", "d", "o", "w">>,
          <<"a", "n", " ", "e", "l", "e", "m", "e", "n", "t", "a", "l", " ", "b", "e", "i", "n", "g">>,
          <<"a", " ", "s", "l", "i", "m", "e", " ", "c", "r", "e", "a", "t", "u", "r", "e">>,
          <<"a", " ", "t", "r", "e", "a", "n", "t">>>>) @@
     (<<"a", "c", "t", "i", "o", "n">> :>
        <<<<"s", "t", "a", "n", "d", "i", "n", "g", " ", "i", "n">>,
          <<"s", "i", "t", "t", "i", "n", "g", " ", "i", "n">>,
          <<"k", "n", "e", "e", "l", "i", "n", "g", " ", "i", "n">>,
          <<"f", "l", "o", "a", "t", "i", "n", "g", " ", "a", "b", "o", "v", "e">>,
          <<"h", "o", "v", "e", "r", "i", "n", "g", " ", "o", "v", "e", "r">>,
          <<"r", "e", "s", "t", "i", "n", "g", " ", "i", "n">>,
          <<"m", "e", "d", "i", "t", "a", "t", "i", "n", "g", " ", "i", "n">>,
          <<"p", "o", "s", "i", "n", "g", " ", "i", "n">>,
          <<"w", "a", "i", "t", "i", "n", "g", " ", "i", "n">>,
          <<"w", "a", "t", "c", "h", "i", "n", "g", " ", "o", "v", "e", "r">>,
          <<"w", "a", "l", "k", "i", "n", "g", " ", "t", "h", "r", "o", "u", "g", "h">>,
          <<"r", "u", "n", "n", "i", "n", "g", " ", "t", "h", "r", "o", "u", "g", "h">>,
          <<"f", "l", "y", "i", "n", "g", " ", "o", "v", "e", "r">>,
          <<"s", "w", "i", "m", "m", "i", "n", "g", " ", "i", "n">>,
          <<"c", "l", "i", "m", "b", "i", "n", "g">>,
          <<"f", "a", "l", "l", "i", "n", "g", " ", "i", "n", "t", "o">>,
          <<"d", "e", "s", "c", "e", "n", "d", "i", "n", "g", " ", "i", "n", "t", "o">>,
          <<"a", "s", "c", "e", "n", "d", "i", "n", "g", " ", "t", "o", "w", "a", "r", "d">>,
          <<"e", "m", "e", "r", "g", "i", "n", "g", " ", "f", "r", "o", "m">>,
          <<"d", "i", "v", "i", "n", "g", " ", "i", "n", "t", "o">>,
          <<"f", "i", "g", "h", "t", "i", "n", "g", " ", "i", "n">>,
          <<"b", "a", "t", "t", "l", "i", "n", "g", " ", "t", "h", "r", "o", "u", "g", "h">>,
          <<"d", "e", "f", "e", "n", "d", "i", "n", "g">>,
          <<"a", "t", "t", "a", "c", "k", "i", "n", "g">>,
          <<"d", "u", "e", "l", "i", "n", "g", " ", "i", "n">>,
          <<"c", "h", "a", "r", "g", "i", "n", "g", " ", "t", "h", "r", "o", "u", "g", "h">>,
          <<"r", "e", "t", "r", "e", "a", "t", "i", "n", "g", " ", "f", "r", "o", "m">>,
          <<"a", "m", "b", "u", "s", "h", "i", "n", "g", " ", "i", "n">>,
          <<"h", "u", "n", "t", "i", "n", "g", " ", "i", "n">>,
          <<"e", "x", "p", "l", "o", "r", "i", "n", "g">>,
          <<"d", "i", "s", "c", "o", "v", "e", "r", "i", "n", "g">>,
          <<"s", "e", "a", "r", "c", "h", "i", "n", "g", " ", "t", "h", "r", "o", "u", "g", "h">>,
          <<"i", "n", "v", "e", "s", "t", "i", "g", "a", "t", "i", "n", "g">>,
          <<"s", "u", "m", "m", "o", "n", "i", "n", "g", " ", "p", "o", "w", "e", "r", " ", "i", "n">>,
          <<"c", "a", "s", "t", "i", "n", "g", " ", "a", " ", "s", "p", "e", "l", "l", " ", "i", "n">>,
          <<"c", "h", "a", "n", "n", "e", "l", "i", "n", "g", " ", "e", "n", "e", "r", "g", "y", " ", "i", "n">>,
          <<"c", "o", "m", "m", "u", "n", "i", "n", "g", " ", "w", "i", "t", "h", " ", "n", "a", "t", "u", "r", "e", " ", "i", "n">>,
          <<"p", "r", "a", "y", "i", "n", "g", " ", "i", "n">>,
          <<"p", "e", "r", "f", "o", "r", "m", "i", "n", "g", " ", "a", " ", "r", "i", "t", "u", "a", "l", " ", "i", "n">>,
          <<"t", "r", "a", "n", "s", "f", "o", "r", "m", "i", "n", "g", " ", "i", "n">>,
          <<"s", "h", "a", "p", "e", "s", "h", "i", "f", "t", "i", "n", "g", " ", "i", "n">>,
          <<"a", "w", "a", "k", "e", "n", "i", "n", "g", " ", "i", "n">>,
          <<"m", "o", "u", "r", "n", "i", "n", "g", " ", "i", "n">>,
          <<"c", "e", "l", "e", "b", "r", "a", "t", "i", "n", "g", " ", "i", "n">>,
          <<"c", "o", "n", "t", "e", "m", "p", "l", "a", "t", "i", "n", "g", " ", "i", "n">>,
          <<"d", "r", "e", "a", "m", "i", "n", "g", " ", "i", "n">>>>) @@
     (<<"e", "n", "v", "i", "r", "o", "n", "m", "e", "n", "t">> :>
        <<<<"a", " ", "d", "a", "r", "k", " ", "f", "o", "r", "e", "s", "t">>,
          <<"a", "n", " ", "e", "n", "c", "h", "a", "n", "t", "e", "d", " ", "f", "o", "r", "e", "s", "t">>,
          <<"a", " ", "m", "i", "s", "t", "y", " ", "f", "o", "r", "e", "s", "t">>,
          <<"a", " ", "b", "a", "m", "b", "o", "o", " ", "f", "o", "r", "e", "s", "t">>,
          <<"a", " ", "s", "n", "o", "w", "y", " ", "m", "o", "u", "n", "t", "a", "i", "n">>,
          <<"a", " ", "v", "o", "l", "c", "a", "n", "i", "c", " ", "m", "o", "u", "n", "t", "a", "i", "n">>,
          <<"a", " ", "f", "l", "o", "a", "t", "i", "n", "g", " ", "m", "o", "u", "n", "t", "a", "i", "n">>,
          <<"a", " ", "v", "a", "s", "t", " ", "d", "e", "s", "e", "r", "t">>,
          <<"a", "n", " ", "o", "a", "s", "i", "s">>,
          <<"a", " ", "c", "a", "n", "y", "o", "n">>,
          <<"a", " ", "w", "a", "t", "e", "r", "f", "a", "l", "l">>,
          <<"a", " ", "r", "i", "v", "e", "r">>,
          <<"a", " ", "b", "e", "a", "c", "h", " ", "a", "t", " ", "s", "u", "n", "s", "e", "t">>,
          <<"a", " ", "s", "t", "o", "r", "m", "y", " ", "s", "e", "a">>,
          <<"a", " ", "c", "o", "r", "a", "l", " ", "r", "e", "e", "f">>,
          <<"a", "n", " ", "u", "n", "d", "e", "r", "w", "a", "t", "e", "r", " ", "c", "a", "v", "e", "r", "n">>,
          <<"a", " ", "m", "e", "d", "i", "e", "v", "a", "l", " ", "c", "a", "s", "t", "l", "e">>,
          <<"a", " ", "r", "u", "i", "n", "e", "d", " ", "f", "o", "r", "t", "r", "e", "s", "s">>,
          <<"a", " ", "g", "o", "t", "h", "i", "c", " ", "c", "a", "t", "h", "e", "d", "r", "a", "l">>,
          <<"a", "n", " ", "a", "n", "c", "i", "e", "n", "t", " ", "t", "e", "m", "p", "l", "e">>,
          <<"a", " ", "h", "i", "d", "d", "e", "n", " ", "s", "h", "r", "i", "n", "e">>,
          <<"a", " ", "s", "a", "c", "r", "e", "d", " ", "g", "r", "o", "v", "e">>,
          <<"a", " ", "w", "i", "z", "a", "r", "d", "'", "s", " ", "t", "o", "w", "e", "r">>,
          <<"a", "n", " ", "a", "l", "c", "h", "e", "m", "i", "s", "t", "'", "s", " ", "l", "a", "b", "o", "r", "a", "t", "o", "r", "y">>,
          <<"a", " ", "r", "o", "y", "a", "l", " ", "t", "h", "r", "o", "n", "e", " ", "r", "o", "o", "m">>,
          <<"a", " ", "d", "u", "n", "g", "e", "o", "n">>,
          <<"c", "a", "t", "a", "c", "o", "m", "b", "s">>,
          <<"a", " ", "c", "r", "y", "p", "t">>,
          <<"a", " ", "g", "r", "a", "v", "e", "y", "a", "r", "d", " ", "a", "t", " ", "m", "i", "d", "n", "i", "g", "h", "t">>,
          <<"a", " ", "c", "y", "b", "e", "r", "p", "u", "n", "k", " ", "c", "i", "t", "y">>,
          <<"a", " ", "n", "e", "o", "n", "-", "l", "i", "t", " ", "a", "l", "l", "e", "y">>,
          <<"a", " ", "f", "u", "t", "u", "r", "i", "s", "t", "i", "c", " ", "m", "e", "t", "r", "o", "p", "o", "l", "i", "s">>,
          <<"a", " ", "s", "p", "a", "c", "e", " ", "s", "t", "a", "t", "i", "o", "n">>,
          <<"a", "n", " ", "a", "l", "i", "e", "n", " ", "p", "l", "a", "n", "e", "t">>,
          <<"a", " ", "t", "e", "r", "r", "a", "f", "o", "r", "m", "e", "d", " ", "m", "o", "o", "n">>,
          <<"a", " ", "d", "y", "s", "t", "o", "p", "i", "a", "n", " ", "w", "a", "s", "t", "e", "l", "a", "n", "d">>,
          <<"a", " ", "p", "o", "s", "t", "-", "a", "p", "o", "c", "a", "l", "y", "p", "t", "i", "c", " ", "c", "i", "t", "y">>,
          <<"a", " ", "m", "e", "g", "a", "s", "t", "r", "u", "c", "t", "u", "r", "e">>,
          <<"a", " ", "v", "i", "r", "t", "u", "a", "l", " ", "r", "e", "a", "l", "i", "t", "y", " ", "w", "o", "r", "l", "d">>,
          <<"i", "n", "s", "i", "d", "e", " ", "a", " ", "c", "o", "m", "p", "u", "t", "e", "r", " ", "m", "a", "i", "n", "f", "r", "a", "m", "e">>,
          <<"a", " ", "c", "r", "y", "s", "t", "a", "l", " ", "c", "a", "v", "e">>,
          <<"a", " ", "b", "i", "o", "l", "u", "m", "i", "n", "e", "s", "c", "e", "n", "t", " ", "c", "a", "v", "e", "r", "n">>,
          <<"a", " ", "f", "l", "o", "a", "t", "i", "n", "g", " ", "i", "s", "l", "a", "n", "d">>,
          <<"t", "h", "e", " ", "a", "s", "t", "r", "a", "l", " ", "p", "l", "a", "n", "e">>,
          <<"b", "e", "t", "w", "e", "e", "n", " ", "d", "i", "m", "e", "n", "s", "i", "o", "n", "s">>,
          <<"t", "h", "e", " ", "v", "o", "i", "d">>,
          <<"a", " ", "p", "o", "c", "k", "e", "t", " ", "d", "i", "m", "e", "n", "s", "i", "o", "n">>,
          <<"a", " ", "m", "i", "r", "r", "o", "r", " ", "w", "o", "r", "l", "d">>,
          <<"a", " ", "d", "r", "e", "a", "m", " ", "r", "e", "a", "l", "m">>,
          <<"c", "h", "e", "r", "r", "y", " ", "b", "l", "o", "s", "s", "o", "m", " ", "g", "a", "r", "d", "e", "n", "s">>,
          <<"a", "n", " ", "a", "u", "t", "u", "m", "n", " ", "f", "o", "r", "e", "s", "t">>,
          <<"a", " ", "f", "i", "e", "l", "d", " ", "o", "f", " ", "f", "l", "o", "w", "e", "r", "s">>,
          <<"u", "n", "d", "e", "r", " ", "t", "h", "e", " ", "n", "o", "r", "t", "h", "e", "r", "n", " ", "l", "i", "g", "h", "t", "s">>,
          <<"d", "u", "r", "i", "n", "g", " ", "a", " ", "s", "o", "l", "a", "r", " ", "e", "c", "l", "i", "p", "s", "e">>>>) @@
     (<<"s", "t", "y", "l", "e">> :>
        <<<<"p", "h", "o", "t", "o", "r", "e", "a", "l", "i", "s", "t", "i", "c">>,
          <<"h", "y", "p", "e", "r", "r", "e", "a", "l", "i", "s", "t", "i", "c">>,
          <<"c", "i", "n", "e", "m", "a", "t", "i", "c">>,
          <<"f", "i", "l", "m", " ", "s", "t", "i", "l", "l">>,
          <<"d", "o", "c", "u", "m", "e", "n", "t", "a", "r", "y", " ", "p", "h", "o", "t", "o", "g", "r", "a", "p", "h", "y">>,
          <<"p", "o", "r", "t", "r", "a", "i", "t", " ", "p", "h", "o", "t", "o", "g", "r", "a", "p", "h", "y">>,
          <<"f", "a", "s", "h", "i", "o", "n", " ", "p", "h", "o", "t", "o", "g", "r", "a", "p", "h", "y">>,
          <<"o", "i", "l", " ", "p", "a", "i", "n", "t", "i", "n", "g">>,
          <<"w", "a", "t", "e", "r", "c", "o", "l", "o", "r", " ", "p", "a", "i", "n", "t", "i", "n", "g">>,
          <<"a", "c", "r", "y", "l", "i", "c", " ", "p", "a", "i", "n", "t", "i", "n", "g">>,
          <<"g", "o", "u", "a", "c", "h", "e">>,
          <<"c", "h", "a", "r", "c", "o", "a", "l", " ", "d", "r", "a", "w", "i", "n", "g">>,
          <<"p", "e", "n", "c", "i", "l", " ", "s", "k", "e", "t", "c", "h">>,
          <<"i", "n", "k", " ", "d", "r", "a", "w", "i", "n", "g">>,
          <<"f", "r", "e", "s", "c", "o">>,
          <<"a", "r", "t", " ", "n", "o", "u", "v", "e", "a", "u">>,
          <<"a", "r", "t", " ", "d", "e", "c", "o">>,
          <<"b", "a", "r", "o", "q", "u", "e">>,
          <<"r", "e", "n", "a", "i", "s", "s", "a", "n", "c", "e">>,
          <<"r", "o", "m", "a", "n", "t", "i", "c", "i", "s", "m">>,
          <<"i", "m", "p", "r", "e", "s", "s", "i", "o", "n", "i", "s", "t">>,
          <<"e", "x", "p", "r", "e", "s", "s", "i", "o", "n", "i", "s", "t">>,
          <<"s", "u", "r", "r", "e", "a", "l", "i", "s", "t">>,
          <<"c", "u", "b", "i", "s", "t">>,
          <<"p", "r", "e", "-", "r", "a", "p", "h", "a", "e", "l", "i", "t", "e">>,
          <<"u", "k", "i", "y", "o", "-", "e">>,
          <<"c", "h", "i", "n", "e", "s", "e", " ", "i", "n", "k", " ", "w", "a", "s", "h">>,
          <<"c", "o", "n", "c", "e", "p", "t", " ", "a", "r", "t">>,
          <<"d", "i", "g", "i", "t", "a", "l", " ", "p", "a", "i", "n", "t", "i", "n", "g">>,
          <<"m", "a", "t", "t", "e", " ", "p", "a", "i", "n", "t", "i", "n", "g">>,
          <<"3", "D", " ", "r", "e", "n", "d", "e", "r">>,
          <<"l", "o", "w", " ", "p", "o", "l", "y", " ", "3", "D">>,
          <<"v", "o", "x", "e", "l", " ", "a", "r", "t">>,
          <<"p", "i", "x", "e", "l", " ", "a", "r", "t">>,
          <<"v", "e", "c", "t", "o", "r", " ", "a", "r", "t">>,
          <<"a", "n", "i", "m", "e", " ", "s", "t", "y", "l", "e">>,
          <<"m", "a", "n", "g", "a", " ", "s", "t", "y", "l", "e">>,
          <<"s", "t", "u", "d", "i", "o", " ", "g", "h", "i", "b", "l", "i", " ", "s", "t", "y", "l", "e">>,
          <<"d", "i", "s", "n", "e", "y", " ", "s", "t", "y", "l", "e">>,
          <<"p", "i", "x", "a", "r", " ", "s", "t", "y", "l", "e">>,
          <<"c", "a", "r", "t", "o", "o", "n", " ", "s", "t", "y", "l", "e">>,
          <<"c", "o", "m", "i", "c", " ", "b", "o", "o", "k", " ", "s", "t", "y", "l", "e">>,
          <<"g", "r", "a", "p", "h", "i", "c", " ", "n", "o", "v", "e", "l", " ", "s", "t", "y", "l", "e">>,
          <<"v", "a", "p", "o", "r", "w", "a", "v", "e", " ", "a", "e", "s", "t", "h", "e", "t", "i", "c">>,
          <<"s", "y", "n", "t", "h", "w", "a", "v", "e">>,
          <<"c", "y", "b", "e", "r", "p", "u", "n", "k", " ", "a", "e", "s", "t", "h", "e", "t", "i", "c">>,
          <<"s", "o", "l", "a", "r", "p", "u", "n", "k">>,
          <<"d", "a", "r", "k", " ", "a", "c", "a", "d", "e", "m", "i", "a">>,
          <<"c", "o", "t", "t", "a", "g", "e", "c", "o", "r", "e">>,
          <<"s", "t", "e", "a", "m", "p", "u", "n", "k">>,
          <<"d", "i", "e", "s", "e", "l", "p", "u", "n", "k">>,
          <<"b", "i", "o", "p", "u", "n", "k">>,
          <<"d", "a", "r", "k", " ", "s", "o", "u", "l", "s", " ", "s", "t", "y", "l", "e">>,
          <<"e", "l", "d", "e", "n", " ", "r", "i", "n", "g", " ", "s", "t", "y", "l", "e">>,
          <<"f", "i", "n", "a", "l", " ", "f", "a", "n", "t", "a", "s", "y", " ", "s", "t", "y", "l", "e">>>>) @@
     (<<"l", "i", "g", "h", "t", "i", "n", "g">> :>
        <<<<"g", "o", "l", "d", "e", "n", " ", "h", "o", "u", "r", " ", "l", "i", "g", "h", "t", "i", "n", "g">>,
          <<"b", "l", "u", "e", " ", "h", "o", "u", "r", " ", "l", "i", "g", "h", "t", "i", "n", "g">>,
          <<"h", "a", "r", "s", "h", " ", "m", "i", "d", "d", "a", "y", " ", "s", "u", "n">>,
          <<"s", "o", "f", "t", " ", "o", "v", "e", "r", "c", "a", "s", "t", " ", "l", "i", "g", "h", "t">>,
          <<"d", "a", "p", "p", "l", "e", "d", " ", "f", "o", "r", "e", "s", "t", " ", "l", "i", "g", "h", "t">>,
          <<"s", "u", "n", "s", "e", "t", " ", "b", "a", "c", "k", "l", "i", "g", "h", "t">>,
          <<"s", "u", "n", "r", "i", "s", "e", " ", "l", "i", "g", "h", "t">>,
          <<"m", "o", "o", "n", "l", "i", "g", "h", "t">>,
          <<"s", "t", "a", "r", "l", "i", "g", "h", "t">>,
          <<"d", "r", "a", "m", "a", "t", "i", "c", " ", "r", "i", "m", " ", "l", "i", "g", "h", "t", "i", "n", "g">>,
          <<"c", "h", "i", "a", "r", "o", "s", "c", "u", "r", "o", " ", "l", "i", "g", "h", "t", "i", "n", "g">>,
          <<"s", "p", "o", "t", "l", "i", "g", "h", "t">>,
          <<"h", "a", "r", "s", "h", " ", "s", "h", "a", "d", "o", "w", "s">>,
          <<"s", "i", "l", "h", "o", "u", "e", "t", "t", "e", " ", "l", "i", "g", "h", "t", "i", "n", "g">>,
          <<"c", "o", "n", "t", "r", "e", "-", "j", "o", "u", "r">>,
          <<"n", "e", "o", "n", " ", "l", "i", "g", "h", "t", "i", "n", "g">>,
          <<"f", "l", "u", "o", "r", "e", "s", "c", "e", "n", "t", " ", "l", "i", "g", "h", "t", "i", "n", "g">>,
          <<"c", "a", "n", "d", "l", "e", "l", "i", "g", "h", "t">>,
          <<"f", "i", "r", "e", "l", "i", "g", "h", "t">>,
          <<"b", "i", "o", "l", "u", "m", "i", "n", "e", "s", "c", "e", "n", "t", " ", "g", "l", "o", "w">>,
          <<"m", "a", "g", "i", "c", "a", "l", " ", "g", "l", "o", "w">>,
          <<"h", "o", "l", "o", "g", "r", "a", "p", "h", "i", "c", " ", "l", "i", "g", "h", "t">>,
          <<"v", "o", "l", "u", "m", "e", "t", "r", "i", "c", " ", "l", "i", "g", "h", "t", "i", "n", "g">>,
          <<"g", "o", "d", " ", "r", "a", "y", "s">>,
          <<"l", "i", "g", "h", "t", " ", "s", "h", "a", "f", "t", "s">>,
          <<"f", "o", "g", "g", "y", " ", "a", "t", "m", "o", "s", "p", "h", "e", "r", "e">>,
          <<"m", "i", "s", "t", "y", " ", "a", "t", "m", "o", "s", "p", "h", "e", "r", "e">>,
          <<"d", "u", "s", "t", "y", " ", "a", "t", "m", "o", "s", "p", "h", "e", "r", "e">>,
          <<"r", "a", "i", "n", "y", " ", "a", "t", "m", "o", "s", "p", "h", "e", "r", "e">>,
          <<"w", "a", "r", "m", " ", "l", "i", "g", "h", "t", "i", "n", "g">>,
          <<"c", "o", "o", "l", " ", "l", "i", "g", "h", "t", "i", "n", "g">>,
          <<"n", "e", "u", "t", "r", "a", "l", " ", "l", "i", "g", "h", "t", "i", "n", "g">>,
          <<"h", "i", "g", "h", " ", "c", "o", "n", "t", "r", "a", "s", "t">>,
          <<"l", "o", "w", " ", "k", "e", "y", " ", "l", "i", "g", "h", "t", "i", "n", "g">>,
          <<"h", "i", "g", "h", " ", "k", "e", "y", " ", "l", "i", "g", "h", "t", "i", "n", "g">>>>) @@
     (<<"c", "a", "m", "e", "r", "a">> :>
        <<<<"e", "x", "t", "r", "e", "m", "e", " ", "c", "l", "o", "s", "e", "-", "u", "p">>,
          <<"c", "l", "o", "s", "e", "-", "u", "p", " ", "p", "o", "r", "t", "r", "a", "i", "t">>,
          <<"m", "e", "d", "i", "u", "m", " ", "s", "h", "o", "t">>,
          <<"f", "u", "l", "l", " ", "b", "o", "d", "y", " ", "s", "h", "o", "t">>,
          <<"w", "i", "d", "e", " ", "s", "h", "o", "t">>,
          <<"e", "x", "t", "r", "e", "m", "e", " ", "w", "i", "d", "e", " ", "s", "h", "o", "t">>,
          <<"e", "s", "t", "a", "b", "l", "i", "s", "h", "i", "n", "g", " ", "s", "h", "o", "t">>,
          <<"e", "y", "e", " ", "l", "e", "v", "e", "l">>,
          <<"l", "o", "w", " ", "a", "n", "g", "l", "e", " ", "s", "h", "o", "t">>,
          <<"h", "i", "g", "h", " ", "a", "n", "g", "l", "e", " ", "s", "h", "o", "t">>,
          <<"b", "i", "r", "d", "'", "s", " ", "e", "y", "e", " ", "v", "i", "e", "w">>,
          <<"w", "o", "r", "m", "'", "s", " ", "e", "y", "e", " ", "v", "i", "e", "w">>,
          <<"d", "u", "t", "c", "h", " ", "a", "n", "g", "l", "e">>,
          <<"o", "v", "e", "r", "h", "e", "a", "d", " ", "s", "h", "o", "t">>,
          <<"f", "i", "r", "s", "t", " ", "p", "e", "r", "s", "o", "n", " ", "v", "i", "e", "w">>,
          <<"o", "v", "e", "r", " ", "t", "h", "e", " ", "s", "h", "o", "u", "l", "d", "e", "r">>,
          <<"p", "o", "i", "n", "t", " ", "o", "f", " ", "v", "i", "e", "w", " ", "s", "h", "o", "t">>,
          <<"t", "h", "r", "e", "e", "-", "q", "u", "a", "r", "t", "e", "r", " ", "v", "i", "e", "w">>,
          <<"p", "r", "o", "f", "i", "l", "e", " ", "v", "i", "e", "w">>,
          <<"f", "r", "o", "n", "t", "a", "l", " ", "v", "i", "e", "w">>,
          <<"r", "e", "a", "r", " ", "v", "i", "e", "w">>,
          <<"s", "h", "a", "l", "l", "o", "w", " ", "d", "e", "p", "t", "h", " ", "o", "f", " ", "f", "i", "e", "l", "d">>,
          <<"d", "e", "e", "p", " ", "f", "o", "c", "u", "s">>,
          <<"b", "o", "k", "e", "h", " ", "b", "a", "c", "k", "g", "r", "o", "u", "n", "d">>,
          <<"m", "o", "t", "i", "o", "n", " ", "b", "l", "u", "r">>,
          <<"l", "o", "n", "g", " ", "e", "x", "p", "o", "s", "u", "r", "e">>,
          <<"t", "i", "l", "t", "-", "s", "h", "i", "f", "t">>,
          <<"f", "i", "s", "h", "e", "y", "e", " ", "l", "e", "n", "s">>,
          <<"w", "i", "d", "e", " ", "a", "n", "g", "l", "e", " ", "l", "e", "n", "s">>,
          <<"t", "e", "l", "e", "p", "h", "o", "t", "o", " ", "c", "o", "m", "p", "r", "e", "s", "s", "i", "o", "n">>,
          <<"m", "a", "c", "r", "o", " ", "s", "h", "o", "t">>>>) @@
     (<<"d", "e", "t", "a", "i", "l", "s">> :>
        <<<<"h", "i", "g", "h", "l", "y", " ", "d", "e", "t", "a", "i", "l", "e", "d">>,
          <<"i", "n", "t", "r", "i", "c", "a", "t", "e", " ", "d", "e", "t", "a", "i", "l", "s">>,
          <<"f", "i", "n", "e", " ", "d", "e", "t", "a", "i", "l", "s">>,
          <<"s", "u", "b", "t", "l", "e", " ", "d", "e", "t", "a", "i", "l", "s">>,
          <<"s", "h", "a", "r", "p", " ", "f", "o", "c", "u", "s">>,
          <<"c", "r", "y", "s", "t", "a", "l", " ", "c", "l", "e", "a", "r">>,
          <<"p", "r", "i", "s", "t", "i", "n", "e", " ", "q", "u", "a", "l", "i", "t", "y">>,
          <<"4", "k">>,
          <<"8", "k">>,
          <<"h", "i", "g", "h", " ", "r", "e", "s", "o", "l", "u", "t", "i", "o", "n">>,
          <<"u", "l", "t", "r", "a", " ", "H", "D">>,
          <<"m", "a", "s", "t", "e", "r", "p", "i", "e", "c", "e">>,
          <<"a", "w", "a", "r", "d", " ", "w", "i", "n", "n", "i", "n", "g">>,
          <<"p", "r", "o", "f", "e", "s", "s", "i", "o", "n", "a", "l">>,
          <<"m", "u", "s", "e", "u", "m", " ", "q", "u", "a", "l", "i", "t", "y">>,
          <<"t", "r", "e", "n", "d", "i", "n", "g", " ", "o", "n", " ", "a", "r", "t", "s", "t", "a", "t", "i", "o", "n">>,
          <<"f", "e", "a", "t", "u", "r", "e", "d", " ", "o", "n", " ", "b", "e", "h", "a", "n", "c", "e">>,
          <<"g", "a", "l", "l", "e", "r", "y", " ", "q", "u", "a", "l", "i", "t", "y">>,
          <<"r", "a", "y", " ", "t", "r", "a", "c", "i", "n", "g">>,
          <<"g", "l", "o", "b", "a", "l", " ", "i", "l", "l", "u", "m", "i", "n", "a", "t", "i", "o", "n">>,
          <<"s", "u", "b", "s", "u", "r", "f", "a", "c", "e", " ", "s", "c", "a", "t", "t", "e", "r", "i", "n", "g">>,
          <<"a", "m", "b", "i", "e", "n", "t", " ", "o", "c", "c", "l", "u", "s", "i", "o", "n">>,
          <<"r", "e", "a", "l", "i", "s", "t", "i", "c", " ", "t", "e", "x", "t", "u", "r", "e", "s">>,
          <<"p", "h", "o", "t", "o", "g", "r", "a", "m", "m", "e", "t", "r", "y">>,
          <<"e", "x", "p", "r", "e", "s", "s", "i", "v", "e", " ", "b", "r", "u", "s", "h", "w", "o", "r", "k">>,
          <<"v", "i", "s", "i", "b", "l", "e", " ", "b", "r", "u", "s", "h", "s", "t", "r", "o", "k", "e", "s">>,
          <<"s", "m", "o", "o", "t", "h", " ", "g", "r", "a", "d", "i", "e", "n", "t", "s">>,
          <<"r", "i", "c", "h", " ", "c", "o", "l", "o", "r", "s">>,
          <<"v", "i", "b", "r", "a", "n", "t", " ", "p", "a", "l", "e", "t", "t", "e">>,
          <<"m", "u", "t", "e", "d", " ", "t", "o", "n", "e", "s">>,
          <<"m", "o", "n", "o", "c", "h", "r", "o", "m", "a", "t", "i", "c">>>>) @@
     (<<"m", "o", "o", "d">> :>
        <<<<"s", "e", "r", "e", "n", "e">>,
          <<"p", "e", "a", "c", "e", "f", "u", "l">>,
          <<"t", "r", "a", "n", "q", "u", "i", "l">>,
          <<"j", "o", "y", "f", "u", "l">>,
          <<"e", "u", "p", "h", "o", "r", "i", "c">>,
          <<"w", "h", "i", "m", "s", "i", "c", "a", "l">>,
          <<"p", "l", "a", "y", "f", "u", "l">>,
          <<"r", "o", "m", "a", "n", "t", "i", "c">>,
          <<"h", "o", "p", "e", "f", "u", "l">>,
          <<"t", "r", "i", "u", "m", "p", "h", "a", "n", "t">>,
          <<"o", "m", "i", "n", "o", "u", "s">>,
          <<"f", "o", "r", "e", "b", "o", "d", "i", "n", "g">>,
          <<"m", "e", "l", "a", "n", "c", "h", "o", "l", "i", "c">>,
          <<"s", "o", "r", "r", "o", "w", "f", "u", "l">>,
          <<"t", "r", "a", "g", "i", "c">>,
          <<"t", "e", "r", "r", "i", "f", "y", "i", "n", "g">>,
          <<"h", "o", "r", "r", "i", "f", "i", "c">>,
          <<"u", "n", "s", "e", "t", "t", "l", "i", "n", "g">>,
          <<"d", "i", "s", "t", "u", "r", "b", "i", "n", "g">>,
          <<"m", "y", "s", "t", "e", "r", "i", "o", "u", "s">>,
          <<"e", "n", "i", "g", "m", "a", "t", "i", "c">>,
          <<"s", "u", "r", "r", "e", "a", "l">>,
          <<"d", "r", "e", "a", "m", "l", "i", "k", "e">>,
          <<"e", "t", "h", "e", "r", "e", "a", "l">>,
          <<"n", "o", "s", "t", "a", "l", "g", "i", "c">>,
          <<"b", "i", "t", "t", "e", "r", "s", "w", "e", "e", "t">>,
          <<"c", "o", "n", "t", "e", "m", "p", "l", "a", "t", "i", "v", "e">>,
          <<"i", "n", "t", "r", "o", "s", "p", "e", "c", "t", "i", "v", "e">>,
          <<"t", "e", "n", "s", "e">>,
          <<"i", "n", "t", "e", "n", "s", "e">>,
          <<"c", "h", "a", "o", "t", "i", "c">>,
          <<"e", "x", "p", "l", "o", "s", "i", "v", "e">>,
          <<"d", "y", "n", "a", "m", "i", "c">>,
          <<"c", "a", "l", "m">>,
          <<"s", "t", "i", "l", "l">>,
          <<"q", "u", "i", "e", "t">>,
          <<"s", "u", "b", "t", "l", "e">>,
          <<"u", "n", "d", "e", "r", "s", "t", "a", "t", "e", "d">>,
          <<"e", "p", "i", "c">>,
          <<"g", "r", "a", "n", "d">>,
          <<"i", "n", "t", "i", "m", "a", "t", "e">>,
          <<"c", "o", "z", "y">>,
          <<"l", "o", "n", "e", "l", "y">>,
          <<"i", "s", "o", "l", "a", "t", "e", "d">>>>),
   classification |->
     (<<"s", "u", "b", "j", "e", "c", "t">> :>
        [keywords |->
          {<<"w", "o", "m", "a", "n">>,
           <<"m", "a", "n">>,
           <<"g", "i", "r", "l">>,
           <<"b", "o", "y">>,
           <<"p", "e", "r", "s", "o", "n">>,
           <<"p", "e", "o", "p", "l", "e">>,
           <<"c", "h", "i", "l", "d">>,
           <<"t", "e", "e", "n">>,
           <<"k", "n", "i", "g", "h", "t">>,
           <<"w", "i", "z", "a", "r", "d">>,
           <<"w", "i", "t", "c", "h">>,
           <<"w", "a", "r", "r", "i", "o", "r">>,
           <<"s", "o", "l", "d", "i", "e", "r">>,
           <<"s", "a", "m", "u", "r", "a", "i">>,
           <<"n", "i", "n", "j", "a">>,
           <<"d", "r", "a", "g", "o", "n">>,
           <<"p", "h", "o", "e", "n", "i", "x">>,
           <<"w", "o", "l", "f">>,
           <<"l", "i", "o", "n">>,
           <<"t", "i", "g", "e", "r">>,
           <<"c", "a", "t">>,
           <<"d", "o", "g">>,
           <<"b", "i", "r", "d">>,
           <<"r", "o", "b", "o", "t">>,
           <<"a", "n", "d", "r", "o", "i", "d">>,
           <<"c", "y", "b", "o", "r", "g">>,
           <<"a", "l", "i", "e", "n">>,
           <<"d", "e", "m", "o", "n">>,
           <<"a", "n", "g", "e", "l">>,
           <<"g", "h", "o", "s", "t">>,
           <<"f", "a", "i", "r", "y">>,
           <<"e", "l", "f">>,
           <<"d", "w", "a", "r", "f">>,
           <<"o", "r", "c">>,
           <<"g", "o", "b", "l", "i", "n">>,
           <<"v", "a", "m", "p", "i", "r", "e">>,
           <<"w", "e", "r", "e", "w", "o", "l", "f">>},
         patterns |->
          <<<<"^", "a", " ">>,
            <<"^", "a", "n", " ">>,
            <<"^", "t", "h", "e", " ">>,
            <<"^", "m", "y", " ">>>>]) @@
     (<<"a", "c", "t", "i", "o", "n">> :>
        [keywords |->
          {<<"s", "t", "a", "n", "d", "i", "n", "g">>,
           <<"s", "i", "t", "t", "i", "n", "g">>,
           <<"w", "a", "l", "k", "i", "n", "g">>,
           <<"r", "u", "n", "n", "i", "n", "g">>,
           <<"f", "l", "y", "i", "n", "g">>,
           <<"s", "w", "i", "m", "m", "i", "n", "g">>,
           <<"f", "i", "g", "h", "t", "i", "n", "g">>,
           <<"b", "a", "t", "t", "l", "i", "n", "g">>,
           <<"d", "a", "n", "c", "i", "n", "g">>,
           <<"s", "i", "n", "g", "i", "n", "g">>,
           <<"p", "l", "a", "y", "i", "n", "g">>,
           <<"r", "e", "a", "d", "i", "n", "g">>,
           <<"c", "a", "s", "t", "i", "n", "g">>,
           <<"s", "u", "m", "m", "o", "n", "i", "n", "g">>,
           <<"m", "e", "d", "i", "t", "a", "t", "i", "n", "g">>,
           <<"p", "r", "a", "y", "i", "n", "g">>,
           <<"s", "l", "e", "e", "p", "i", "n", "g">>,
           <<"d", "r", "e", "a", "m", "i", "n", "g">>,
           <<"e", "x", "p", "l", "o", "r", "i", "n", "g">>,
           <<"h", "u", "n", "t", "i", "n", "g">>,
           <<"s", "e", "a", "r", "c", "h", "i", "n", "g">>,
           <<"w", "a", "t", "c", "h", "i", "n", "g">>,
           <<"w", "a", "i", "t", "i", "n", "g">>},
         patterns |->
          <<<<"i", "n", "g", "\\", "s", "+", "(", "i", "n", "|", "o", "n", "|", "a", "t", "|", "t", "h", "r", "o", "u", "g", "h", "|", "o", "v", "e", "r", "|", "a", "b", "o", "v", "e", "|", "b", "e", "l", "o", "w", "|", "n", "e", "a", "r", ")">>>>]) @@
     (<<"e", "n", "v", "i", "r", "o", "n", "m", "e", "n", "t">> :>
        [keywords |->
          {<<"f", "o", "r", "e", "s", "t">>,
           <<"m", "o", "u", "n", "t", "a", "i", "n">>,
           <<"d", "e", "s", "e", "r", "t">>,
           <<"o", "c", "e", "a", "n">>,
           <<"s", "e", "a">>,
           <<"b", "e", "a", "c", "h">>,
           <<"r", "i", "v", "e", "r">>,
           <<"c", "i", "t", "y">>,
           <<"t", "o", "w", "n">>,
           <<"v", "i", "l", "l", "a", "g", "e">>,
           <<"c", "a", "s", "t", "l", "e">>,
           <<"t", "o", "w", "e", "r">>,
           <<"t", "e", "m", "p", "l", "e">>,
           <<"c", "h", "u", "r", "c", "h">>,
           <<"c", "a", "v", "e">>,
           <<"c", "a", "v", "e", "r", "n">>,
           <<"d", "u", "n", "g", "e", "o", "n">>,
           <<"r", "u", "i", "n", "s">>,
           <<"w", "a", "s", "t", "e", "l", "a", "n", "d">>,
           <<"g", "a", "r", "d", "e", "n">>,
           <<"s", "p", "a", "c", "e">>,
           <<"p", "l", "a", "n", "e", "t">>,
           <<"m", "o", "o", "n">>,
           <<"s", "t", "a", "t", "i", "o", "n">>,
           <<"v", "o", "i", "d">>,
           <<"d", "i", "m", "e", "n", "s", "i", "o", "n">>,
           <<"r", "e", "a", "l", "m">>},
         patterns |->
          <<<<"^", "i", "n", " ", "(", "a", " ", "|", "a", "n", " ", "|", "t", "h", "e", " ", ")", "?">>,
            <<"^", "a", "t", " ", "(", "a", " ", "|", "a", "n", " ", "|", "t", "h", "e", " ", ")", "?">>,
            <<"^", "i", "n", "s", "i", "d", "e">>>>]) @@
     (<<"s", "t", "y", "l", "e">> :>
        [keywords |->
          {<<"p", "h", "o", "t", "o", "r", "e", "a", "l", "i", "s", "t", "i", "c">>,
           <<"h", "y", "p", "e", "r", "r", "e", "a", "l", "i", "s", "t", "i", "c">>,
           <<"r", "e", "a", "l", "i", "s", "t", "i", "c">>,
           <<"c", "i", "n", "e", "m", "a", "t", "i", "c">>,
           <<"p", "a", "i", "n", "t", "i", "n", "g">>,
           <<"d", "r", "a", "w", "i", "n", "g">>,
           <<"s", "k", "e", "t", "c", "h">>,
           <<"i", "l", "l", "u", "s", "t", "r", "a", "t", "i", "o", "n">>,
           <<"r", "e", "n", "d", "e", "r">>,
           <<"a", "n", "i", "m", "e">>,
           <<"m", "a", "n", "g", "a">>,
           <<"c", "a", "r", "t", "o", "o", "n">>,
           <<"c", "o", "m", "i", "c">>,
           <<"p", "i", "x", "e", "l">>,
           <<"v", "o", "x", "e", "l">>,
           <<"b", "a", "r", "o", "q", "u", "e">>,
           <<"r", "e", "n", "a", "i", "s", "s", "a", "n", "c", "e">>,
           <<"i", "m", "p", "r", "e", "s", "s", "i", "o", "n", "i", "s", "t">>,
           <<"s", "u", "r", "r", "e", "a", "l", "i", "s", "t">>,
           <<"c", "y", "b", "e", "r", "p", "u", "n", "k">>,
           <<"s", "t", "e", "a", "m", "p", "u", "n", "k">>,
           <<"s", "o", "l", "a", "r", "p", "u", "n", "k">>,
           <<"d", "i", "e", "s", "e", "l", "p", "u", "n", "k">>,
           <<"a", "r", "t", " ", "n", "o", "u", "v", "e", "a", "u">>,
           <<"a", "r", "t", " ", "d", "e", "c", "o">>,
           <<"g", "o", "t", "h", "i", "c">>,
           <<"v", "i", "c", "t", "o", "r", "i", "a", "n">>},
         patterns |->
          <<<<"s", "t", "y", "l", "e", "$">>,
            <<"a", "e", "s", "t", "h", "e", "t", "i", "c", "$">>,
            <<"^", "i", "n", " ", "t", "h", "e", " ", "s", "t", "y", "l", "e", " ", "o", "f">>>>]) @@
     (<<"l", "i", "g", "h", "t", "i", "n", "g">> :>
        [keywords |->
          {<<"l", "i", "g", "h", "t", "i", "n", "g">>,
           <<"l", "i", "g", "h", "t">>,
           <<"l", "i", "t">>,
           <<"g", "l", "o", "w">>,
           <<"g", "l", "o", "w", "i", "n", "g">>,
           <<"i", "l", "l", "u", "m", "i", "n", "a", "t", "e", "d">>,
           <<"s", "h", "a", "d", "o", "w">>,
           <<"s", "h", "a", "d", "o", "w", "s">>,
           <<"s", "u", "n", "l", "i", "g", "h", "t">>,
           <<"m", "o", "o", "n", "l", "i", "g", "h", "t">>,
           <<"s", "t", "a", "r", "l", "i", "g", "h", "t">>,
           <<"g", "o", "l", "d", "e", "n", " ", "h", "o", "u", "r">>,
           <<"b", "l", "u", "e", " ", "h", "o", "u", "r">>,
           <<"s", "u", "n", "s", "e", "t">>,
           <<"s", "u", "n", "r", "i", "s", "e">>,
           <<"d", "a", "w", "n">>,
           <<"d", "u", "s", "k">>,
           <<"n", "e", "o", "n">>,
           <<"f", "l", "u", "o", "r", "e", "s", "c", "e", "n", "t">>,
           <<"c", "a", "n", "d", "l", "e", "l", "i", "g", "h", "t">>,
           <<"f", "i", "r", "e", "l", "i", "g", "h", "t">>,
           <<"t", "o", "r", "c", "h", "l", "i", "g", "h", "t">>},
         patterns |->
          <<<<"l", "i", "g", "h", "t", "i", "n", "g", "$">>,
            <<"l", "i", "g", "h", "t", "$">>,
            <<"l", "i", "t", "$">>>>]) @@
     (<<"c", "a", "m", "e", "r", "a">> :>
        [keywords |->
          {<<"c", "l", "o", "s", "e", "-", "u", "p">>,
           <<"c", "l", "o", "s", "e", "u", "p">>,
           <<"w", "i", "d", "e", " ", "s", "h", "o", "t">>,
           <<"m", "e", "d", "i", "u", "m", " ", "s", "h", "o", "t">>,
           <<"f", "u", "l", "l", " ", "b", "o", "d", "y">>,
           <<"p", "o", "r", "t", "r", "a", "i", "t">>,
           <<"a", "n", "g", "l", "e">>,
           <<"v", "i", "e", "w">>,
           <<"p", "e", "r", "s", "p", "e", "c", "t", "i", "v", "e">>,
           <<"l", "e", "n", "s">>,
           <<"b", "o", "k", "e", "h">>,
           <<"d", "e", "p", "t", "h", " ", "o", "f", " ", "f", "i", "e", "l", "d">>,
           <<"d", "o", "f">>,
           <<"f", "o", "c", "u", "s">>,
           <<"b", "l", "u", "r">>,
           <<"f", "i", "s", "h", "e", "y", "e">>,
           <<"t", "e", "l", "e", "p", "h", "o", "t", "o">>,
           <<"m", "a", "c", "r", "o">>,
           <<"t", "i", "l", "t", "-", "s", "h", "i", "f", "t">>},
         patterns |->
          <<<<"s", "h", "o", "t", "$">>,
            <<"a", "n", "g", "l", "e", "$">>,
            <<"v", "i", "e", "w", "$">>,
            <<"^", "\\", "d", "+", "m", "m">>>>]) @@
     (<<"d", "e", "t", "a", "i", "l", "s">> :>
        [keywords |->
          {<<"d", "e", "t", "a", "i", "l", "e", "d">>,
           <<"i", "n", "t", "r", "i", "c", "a", "t", "e">>,
           <<"s", "h", "a", "r", "p">>,
           <<"c", "r", "i", "s", "p">>,
           <<"c", "l", "e", "a", "r">>,
           <<"4", "k">>,
           <<"8", "k">>,
           <<"h", "d">>,
           <<"u", "h", "d">>,
           <<"h", "i", "g", "h", " ", "r", "e", "s", "o", "l", "u", "t", "i", "o", "n">>,
           <<"m", "a", "s", "t", "e", "r", "p", "i", "e", "c", "e">>,
           <<"q", "u", "a", "l", "i", "t", "y">>,
           <<"p", "r", "o", "f", "e", "s", "s", "i", "o", "n", "a", "l">>,
           <<"a", "w", "a", "r", "d">>,
           <<"a", "r", "t", "s", "t", "a", "t", "i", "o", "n">>,
           <<"b", "e", "h", "a", "n", "c", "e">>,
           <<"t", "r", "e", "n", "d", "i", "n", "g">>},
         patterns |->
          <<<<"d", "e", "t", "a", "i", "l", "e", "d", "$">>,
            <<"q", "u", "a", "l", "i", "t", "y", "$">>,
            <<"^", "\\", "d", "+", "k", "$">>>>]) @@
     (<<"m", "o", "o", "d">> :>
        [keywords |->
          {<<"s", "e", "r", "e", "n", "e">>,
           <<"p", "e", "a", "c", "e", "f", "u", "l">>,
           <<"c", "a", "l", "m">>,
           <<"t", "r", "a", "n", "q", "u", "i", "l">>,
           <<"j", "o", "y", "f", "u", "l">>,
           <<"h", "a", "p", "p", "y">>,
           <<"d", "a", "r", "k">>,
           <<"o", "m", "i", "n", "o", "u", "s">>,
           <<"f", "o", "r", "e", "b", "o", "d", "i", "n", "g">>,
           <<"m", "y", "s", "t", "e", "r", "i", "o", "u", "s">>,
           <<"e", "e", "r", "i", "e">>,
           <<"e", "p", "i", "c">>,
           <<"d", "r", "a", "m", "a", "t", "i", "c">>,
           <<"i", "n", "t", "e", "n", "s", "e">>,
           <<"d", "y", "n", "a", "m", "i", "c">>,
           <<"c", "h", "a", "o", "t", "i", "c">>,
           <<"m", "e", "l", "a", "n", "c", "h", "o", "l", "i", "c">>,
           <<"s", "a", "d">>,
           <<"n", "o", "s", "t", "a", "l", "g", "i", "c">>,
           <<"r", "o", "m", "a", "n", "t", "i", "c">>,
           <<"d", "r", "e", "a", "m", "y">>},
         patterns |->
          <<<<"a", "t", "m", "o", "s", "p", "h", "e", "r", "e", "$">>,
            <<"m", "o", "o", "d", "$">>,
            <<"f", "e", "e", "l", "i", "n", "g", "$">>,
            <<"v", "i", "b", "e", "$">>>>]),
   rules |->
     [mandatory |-> {<<"d", "e", "t", "a", "i", "l", "s">>},
      standard |-> {<<"s", "t", "y", "l", "e">>,
               <<"l", "i", "g", "h", "t", "i", "n", "g">>,
               <<"e", "n", "v", "i", "r", "o", "n", "m", "e", "n", "t">>,
               <<"c", "a", "m", "e", "r", "a">>},
      optional |-> {<<"m", "o", "o", "d">>,
               <<"a", "c", "t", "i", "o", "n">>}],
   anti_pairs |->
     (<<"u", "n", "d", "e", "r", "w", "a", "t", "e", "r">> :>
        {<<"s", "u", "n", "s", "e", "t">>,
        <<"s", "u", "n", "r", "i", "s", "e">>,
        <<"g", "o", "l", "d", "e", "n", " ", "h", "o", "u", "r">>,
        <<"h", "a", "r", "s", "h", " ", "s", "u", "n", "l", "i", "g", "h", "t">>,
        <<"d", "u", "s", "t", "y", " ", "a", "t", "m", "o", "s", "p", "h", "e", "r", "e">>}) @@
     (<<"s", "p", "a", "c", "e", " ", "s", "t", "a", "t", "i", "o", "n">> :>
        {<<"g", "o", "l", "d", "e", "n", " ", "h", "o", "u", "r">>,
        <<"f", "o", "r", "e", "s", "t", " ", "l", "i", "g", "h", "t">>,
        <<"d", "a", "p", "p", "l", "e", "d">>}) @@
     (<<"c", "a", "v", "e">> :>
        {<<"g", "o", "l", "d", "e", "n", " ", "h", "o", "u", "r">>,
        <<"b", "l", "u", "e", " ", "h", "o", "u", "r">>,
        <<"s", "u", "n", "s", "e", "t", " ", "b", "a", "c", "k", "l", "i", "g", "h", "t">>,
        <<"h", "a", "r", "s", "h", " ", "m", "i", "d", "d", "a", "y", " ", "s", "u", "n">>}) @@
     (<<"n", "i", "g", "h", "t">> :>
        {<<"h", "a", "r", "s", "h", " ", "m", "i", "d", "d", "a", "y", " ", "s", "u", "n">>,
        <<"b", "r", "i", "g", "h", "t", " ", "d", "a", "y", "l", "i", "g", "h", "t">>,
        <<"g", "o", "l", "d", "e", "n", " ", "h", "o", "u", "r">>}) @@
     (<<"g", "r", "a", "v", "e", "y", "a", "r", "d">> :>
        {<<"j", "o", "y", "f", "u", "l">>,
        <<"p", "l", "a", "y", "f", "u", "l">>,
        <<"w", "h", "i", "m", "s", "i", "c", "a", "l">>,
        <<"e", "u", "p", "h", "o", "r", "i", "c">>}) @@
     (<<"s", "u", "n", "n", "y">> :>
        {<<"o", "m", "i", "n", "o", "u", "s">>,
        <<"f", "o", "r", "e", "b", "o", "d", "i", "n", "g">>,
        <<"h", "o", "r", "r", "i", "f", "i", "c">>,
        <<"t", "e", "r", "r", "i", "f", "y", "i", "n", "g">>}) @@
     (<<"p", "i", "x", "e", "l", " ", "a", "r", "t">> :>
        {<<"r", "a", "y", " ", "t", "r", "a", "c", "i", "n", "g">>,
        <<"p", "h", "o", "t", "o", "g", "r", "a", "m", "m", "e", "t", "r", "y">>,
        <<"s", "u", "b", "s", "u", "r", "f", "a", "c", "e", " ", "s", "c", "a", "t", "t", "e", "r", "i", "n", "g">>,
        <<"h", "y", "p", "e", "r", "r", "e", "a", "l", "i", "s", "t", "i", "c">>}) @@
     (<<"w", "a", "t", "e", "r", "c", "o", "l", "o", "r">> :>
        {<<"8", "k">>,
        <<"p", "h", "o", "t", "o", "g", "r", "a", "m", "m", "e", "t", "r", "y">>,
        <<"h", "y", "p", "e", "r", "r", "e", "a", "l", "i", "s", "t", "i", "c">>,
        <<"r", "a", "y", " ", "t", "r", "a", "c", "i", "n", "g">>}) @@
     (<<"s", "k", "e", "t", "c", "h">> :>
        {<<"r", "a", "y", " ", "t", "r", "a", "c", "i", "n", "g">>,
        <<"p", "h", "o", "t", "o", "g", "r", "a", "m", "m", "e", "t", "r", "y">>,
        <<"8", "k", " ", "r", "e", "s", "o", "l", "u", "t", "i", "o", "n">>}) @@
     (<<"m", "o", "o", "n", "l", "i", "g", "h", "t">> :>
        {<<"h", "a", "r", "s", "h", " ", "m", "i", "d", "d", "a", "y", " ", "s", "u", "n">>,
        <<"g", "o", "l", "d", "e", "n", " ", "h", "o", "u", "r">>,
        <<"b", "r", "i", "g", "h", "t", " ", "d", "a", "y", "l", "i", "g", "h", "t">>}) @@
     (<<"n", "e", "o", "n">> :>
        {<<"c", "a", "n", "d", "l", "e", "l", "i", "g", "h", "t">>,
        <<"f", "i", "r", "e", "l", "i", "g", "h", "t">>,
        <<"t", "o", "r", "c", "h", "l", "i", "g", "h", "t">>,
        <<"m", "e", "d", "i", "e", "v", "a", "l">>})]

\* DEFAULT_PROFILE of V1
V1_DEFAULT_PROFILE ==
  [templates |->
     <<<<"{", "s", "u", "b", "j", "e", "c", "t", "}", ",", " ", "{", "e", "n", "v", "i", "r", "o", "n", "m", "e", "n", "t", "}", ",", " ", "{", "s", "t", "y", "l", "e", "}", ",", " ", "{", "l", "i", "g", "h", "t", "i", "n", "g", "}", ",", " ", "{", "c", "a", "m", "e", "r", "a", "}", ",", " ", "{", "d", "e", "t", "a", "i", "l", "s", "}", ",", " ", "{", "m", "o", "o", "d", "}", " ", "a", "t", "m", "o", "s", "p", "h", "e", "r", "e">>,
       <<"{", "s", "u", "b", "j", "e", "c", "t", "}", ",", " ", "{", "e", "n", "v", "i", "r", "o", "n", "m", "e", "n", "t", "}", ",", " ", "{", "s", "t", "y", "l", "e", "}", ",", " ", "{", "l", "i", "g", "h", "t", "i", "n", "g", "}", ",", " ", "{", "d", "e", "t", "a", "i", "l", "s", "}", ",", " ", "{", "m", "o", "o", "d", "}">>,
       <<"{", "s", "t", "y", "l", "e", "}", ",", " ", "{", "s", "u", "b", "j", "e", "c", "t", "}", ",", " ", "{", "e", "n", "v", "i", "r", "o", "n", "m", "e", "n", "t", "}", ",", " ", "{", "l", "i", "g", "h", "t", "i", "n", "g", "}", ",", " ", "{", "c", "a", "m", "e", "r", "a", "}", ",", " ", "{", "d", "e", "t", "a", "i", "l", "s", "}">>,
       <<"{", "c", "a", "m", "e", "r", "a", "}", ",", " ", "{", "s", "u", "b", "j", "e", "c", "t", "}", ",", " ", "{", "e", "n", "v", "i", "r", "o", "n", "m", "e", "n", "t", "}", ",", " ", "{", "s", "t", "y", "l", "e", "}", ",", " ", "{", "l", "i", "g", "h", "t", "i", "n", "g", "}", ",", " ", "{", "d", "e", "t", "a", "i", "l", "s", "}">>,
       <<"{", "s", "u", "b", "j", "e", "c", "t", "}", ",", " ", "{", "e", "n", "v", "i", "r", "o", "n", "m", "e", "n", "t", "}", ",", " ", "{", "s", "t", "y", "l", "e", "}", ",", " ", "{", "l", "i", "g", "h", "t", "i", "n", "g", "}", ",", " ", "{", "d", "e", "t", "a", "i", "l", "s", "}">>,
       <<"{", "m", "o", "o", "d", "}", " ", "s", "c", "e", "n", "e", ",", " ", "{", "s", "u", "b", "j", "e", "c", "t", "}", ",", " ", "{", "e", "n", "v", "i", "r", "o", "n", "m", "e", "n", "t", "}", ",", " ", "{", "s", "t", "y", "l", "e", "}", ",", " ", "{", "l", "i", "g", "h", "t", "i", "n", "g", "}", ",", " ", "{", "d", "e", "t", "a", "i", "l", "s", "}">>,
       <<"{", "s", "u", "b", "j", "e", "c", "t", "}", ",", " ", "{", "a", "c", "t", "i", "o", "n", "}", ",", " ", "{", "e", "n", "v", "i", "r", "o", "n", "m", "e", "n", "t", "}", ",", " ", "{", "s", "t", "y", "l", "e", "}", ",", " ", "{", "l", "i", "g", "h", "t", "i", "n", "g", "}", ",", " ", "{", "d", "e", "t", "a", "i", "l", "s", "}">>,
       <<"{", "s", "t", "y", "l", "e", "}", ",", " ", "{", "s", "u", "b", "j", "e", "c", "t", "}", ",", " ", "{", "e", "n", "v", "i", "r", "o", "n", "m", "e", "n", "t", "}", ",", " ", "{", "l", "i", "g", "h", "t", "i", "n", "g", "}", ",", " ", "{", "m", "o", "o", "d", "}", ",", " ", "{", "d", "e", "t", "a", "i", "l", "s", "}">>>>,
   pools |->
     (<<"s", "u", "b", "j", "e", "c", "t">> :>
        <<<<"a", " ", "w", "o", "m", "a", "n">>,
          <<"a", " ", "m", "a", "n">>,
          <<"a", " ", "y", "o", "u", "n", "g", " ", "w", "o", "m", "a", "n">>,
          <<"a", " ", "y", "o", "u", "n", "g", " ", "m", "a", "n">>,
          <<"a", "n", " ", "e", "l", "d", "e", "r", "l", "y", " ", "w", "o", "m", "a", "n">>,
          <<"a", "n", " ", "e", "l", "d", "e", "r", "l", "y", " ", "m", "a", "n">>,
          <<"a", " ", "c", "h", "i", "l", "d">>,
          <<"a", " ", "t", "e", "e", "n", "a", "g", "e", "r">>,
          <<"a", " ", "c", "o", "u", "p", "l", "e">>,
          <<"a", " ", "g", "r", "o", "u", "p", " ", "o", "f", " ", "p", "e", "o", "p", "l", "e">>,
          <<"a", " ", "k", "n", "i", "g", "h", "t">>,
          <<"a", " ", "w", "i", "z", "a", "r", "d">>,
          <<"a", " ", "w", "i", "t", "c", "h">>,
          <<"a", " ", "s", "o", "r", "c", "e", "r", "e", "s", "s">>,
          <<"a", " ", "n", "e", "c", "r", "o", "m", "a", "n", "c", "e", "r">>,
          <<"a", " ", "p", "a", "l", "a", "d", "i", "n">>,
          <<"a", " ", "r", "o", "g", "u", "e">>,
          <<"a", "n", " ", "a", "s", "s", "a", "s", "s", "i", "n">>,
          <<"a", " ", "r", "a", "n", "g", "e", "r">>,
          <<"a", " ", "b", "a", "r", "b", "a", "r", "i", "a", "n">>,
          <<"a", " ", "d", "r", "u", "i", "d">>,
          <<"a", " ", "m", "o", "n", "k">>,
          <<"a", " ", "b", "a", "r", "d">>,
          <<"a", " ", "w", "a", "r", "l", "o", "c", "k">>,
          <<"a", "n", " ", "e", "l", "v", "e", "n", " ", "a", "r", "c", "h", "e", "r">>,
          <<"a", " ", "d", "w", "a", "r", "v", "e", "n", " ", "s", "m", "i", "t", "h">>,
          <<"a", "n", " ", "o", "r", "c", " ", "w", "a", "r", "r", "i", "o", "r">>,
          <<"a", " ", "g", "o", "b", "l", "i", "n">>,
          <<"a", " ", "f", "a", "i", "r", "y">>,
          <<"a", " ", "n", "y", "m", "p", "h">>,
          <<"a", " ", "c", "y", "b", "o", "r", "g">>,
          <<"a", "n", " ", "a", "n", "d", "r", "o", "i", "d">>,
          <<"a", " ", "r", "o", "b", "o", "t">>,
          <<"a", " ", "m", "e", "c", "h", " ", "p", "i", "l", "o", "t">>,
          <<"a", "n", " ", "a", "s", "t", "r", "o", "n", "a", "u", "t">>,
          <<"a", " ", "s", "p", "a", "c", "e", " ", "m", "a", "r", "i", "n", "e">>,
          <<"a", "n", " ", "a", "l", "i", "e", "n">>,
          <<"a", " ", "h", "a", "c", "k", "e", "r">>,
          <<"a", " ", "s", "c", "i", "e", "n", "t", "i", "s", "t">>,
          <<"a", " ", "b", "o", "u", "n", "t", "y", " ", "h", "u", "n", "t", "e", "r">>,
          <<"a", " ", "s", "a", "m", "u", "r", "a", "i">>,
          <<"a", " ", "n", "i", "n", "j", "a">>,
          <<"a", " ", "v", "i", "k", "i", "n", "g">>,
          <<"a", " ", "g", "l", "a", "d", "i", "a", "t", "o", "r">>,
          <<"a", " ", "p", "h", "a", "r", "a", "o", "h">>,
          <<"a", " ", "g", "e", "i", "s", "h", "a">>,
          <<"a", " ", "s", "h", "o", "g", "u", "n">>,
          <<"a", " ", "r", "o", "m", "a", "n", " ", "s", "o", "l", "d", "i", "e", "r">>,
          <<"a", " ", "m", "e", "d", "i", "e", "v", "a", "l", " ", "p", "e", "a", "s", "a", "n", "t">>,
          <<"a", " ", "n", "o", "b", "l", "e">>,
          <<"a", " ", "d", "e", "t", "e", "c", "t", "i", "v", "e">>,
          <<"a", " ", "s", "o", "l", "d", "i", "e", "r">>,
          <<"a", " ", "p", "i", "l", "o", "t">>,
          <<"a", " ", "d", "o", "c", "t", "o", "r">>,
          <<"a", "n", " ", "a", "r", "t", "i", "s", "t">>,
          <<"a", " ", "m", "u", "s", "i", "c", "i", "a", "n">>,
          <<"a", " ", "d", "a", "n", "c", "e", "r">>,
          <<"a", "n", " ", "a", "t", "h", "l", "e", "t", "e">>,
          <<"a", " ", "c", "h", "e", "f">>,
          <<"a", " ", "p", "h", "o", "t", "o", "g", "r", "a", "p", "h", "e", "r">>,
          <<"a", " ", "d", "r", "a", "g", "o", "n">>,
          <<"a", " ", "p", "h", "o", "e", "n", "i", "x">>,
          <<"a", " ", "g", "r", "i", "f", "f", "i", "n">>,
          <<"a", " ", "u", "n", "i", "c", "o", "r", "n">>,
          <<"a", " ", "w", "e", "r", "e", "w", "o", "l", "f">>,
          <<"a", " ", "v", "a", "m", "p", "i", "r", "e">>,
          <<"a", " ", "d", "e", "m", "o", "n">>,
          <<"a", "n", " ", "a", "n", "g", "e", "l">>,
          <<"a", " ", "g", "h", "o", "s", "t">>,
          <<"a", " ", "s", "p", "i", "r", "i", "t">>,
          <<"a", " ", "w", "o", "l", "f">>,
          <<"a", " ", "l", "i", "o", "n">>,
          <<"a", " ", "t", "i", "g", "e", "r">>,
          <<"a", "n", " ", "e", "a", "g", "l", "e">>,
          <<"a", " ", "r", "a", "v", "e", "n">>,
          <<"a", " ", "s", "e", "r", "p", "e", "n", "t">>,
          <<"a", " ", "w", "h", "a", "l", "e">>,
          <<"a", " ", "s", "h", "a", "r", "k">>,
          <<"a", " ", "b", "u", "t", "t", "e", "r", "f", "l", "y">>,
          <<"a", " ", "s", "p", "i", "d", "e", "r">>,
          <<"a", " ", "m", "e", "c", "h", "a", "n", "i", "c", "a", "l", " ", "s", "p", "i", "d", "e", "r">>,
          <<"a", " ", "c", "l", "o", "c", "k", "w", "o", "r", "k", " ", "a", "u", "t", "o", "m", "a", "t", "o", "n">>,
          <<"a", " ", "g", "o", "l", "e", "m">>,
          <<"a", " ", "s", "e", "n", "t", "i", "e", "n", "t", " ", "s", "t", "a", "t", "u", "e">>,
          <<"a", " ", "l", "i", "v", "i", "n", "g", " ", "s", "h", "a", "d", "o", "w">>,
          <<"a", "n", " ", "e", "l", "e", "m", "e", "n", "t", "a", "l", " ", "b", "e", "i", "n", "g">>,
          <<"a", " ", "s", "l", "i", "m", "e", " ", "c", "r", "e", "a", "t", "u", "r", "e">>,
          <<"a", " ", "t", "r", "e", "a", "n", "t">>>>) @@
     (<<"a", "c", "t", "i", "o", "n">> :>
        <<<<"s", "t", "a", "n", "d", "i", "n", "g", " ", "i", "n">>,
          <<"s", "i", "t", "t", "i", "n", "g", " ", "i", "n">>,
          <<"k", "n", "e", "e", "l", "i", "n", "g", " ", "i", "n">>,
          <<"f", "l", "o", "a", "t", "i", "n", "g", " ", "a", "b", "o", "v", "e">>,
          <<"h", "o", "v", "e", "r", "i", "n", "g", " ", "o", "v", "e", "r">>,
          <<"r", "e", "s", "t", "i", "n", "g", " ", "i", "n">>,
          <<"m", "e", "d", "i", "t", "a", "t", "i", "n", "g", " ", "i", "n">>,
          <<"p", "o", "s", "i", "n", "g", " ", "i", "n">>,
          <<"w", "a", "i", "t", "i", "n", "g", " ", "i", "n">>,
          <<"w", "a", "t", "c", "h", "i", "n", "g", " ", "o", "v", "e", "r">>,
          <<"w", "a", "l", "k", "i", "n", "g", " ", "t", "h", "r", "o", "u", "g", "h">>,
          <<"r", "u", "n", "n", "i", "n", "g", " ", "t", "h", "r", "o", "u", "g", "h">>,
          <<"f", "l", "y", "i", "n", "g", " ", "o", "v", "e", "r">>,
          <<"s", "w", "i", "m", "m", "i", "n", "g", " ", "i", "n">>,
          <<"c", "l", "i", "m", "b", "i", "n", "g">>,
          <<"f", "a", "l", "l", "i", "n", "g", " ", "i", "n", "t", "o">>,
          <<"d", "e", "s", "c", "e", "n", "d", "i", "n", "g", " ", "i", "n", "t", "o">>,
          <<"a", "s", "c", "e", "n", "d", "i", "n", "g", " ", "t", "o", "w", "a", "r", "d">>,
          <<"e", "m", "e", "r", "g", "i", "n", "g", " ", "f", "r", "o", "m">>,
          <<"d", "i", "v", "i", "n", "g", " ", "i", "n", "t", "o">>,
          <<"f", "i", "g", "h", "t", "i", "n", "g", " ", "i", "n">>,
          <<"b", "a", "t", "t", "l", "i", "n", "g", " ", "t", "h", "r", "o", "u", "g", "h">>,
          <<"d", "e", "f", "e", "n", "d", "i", "n", "g">>,
          <<"a", "t", "t", "a", "c", "k", "i", "n", "g">>,
          <<"d", "u", "e", "l", "i", "n", "g", " ", "i", "n">>,
          <<"c", "h", "a", "r", "g", "i", "n", "g", " ", "t", "h", "r", "o", "u", "g", "h">>,
          <<"r", "e", "t", "r", "e", "a", "t", "i", "n", "g", " ", "f", "r", "o", "m">>,
          <<"a", "m", "b", "u", "s", "h", "i", "n", "g", " ", "i", "n">>,
          <<"h", "u", "n", "t", "i", "n", "g", " ", "i", "n">>,
          <<"e", "x", "p", "l", "o", "r", "i", "n", "g">>,
          <<"d", "i", "s", "c", "o", "v", "e", "r", "i", "n", "g">>,
          <<"s", "e", "a", "r", "c", "h", "i", "n", "g", " ", "t", "h", "r", "o", "u", "g", "h">>,
          <<"i", "n", "v", "e", "s", "t", "i", "g", "a", "t", "i", "n", "g">>,
          <<"s", "u", "m", "m", "o", "n", "i", "n", "g", " ", "p", "o", "w", "e", "r", " ", "i", "n">>,
          <<"c", "a", "s", "t", "i", "n", "g", " ", "a", " ", "s", "p", "e", "l", "l", " ", "i", "n">>,
          <<"c", "h", "a", "n", "n", "e", "l", "i", "n", "g", " ", "e", "n", "e", "r", "g", "y", " ", "i", "n">>,
          <<"c", "o", "m", "m", "u", "n", "i", "n", "g", " ", "w", "i", "t", "h", " ", "n", "a", "t", "u", "r", "e", " ", "i", "n">>,
          <<"p", "r", "a", "y", "i", "n", "g", " ", "i", "n">>,
          <<"p", "e", "r", "f", "o", "r", "m", "i", "n", "g", " ", "a", " ", "r", "i", "t", "u", "a", "l", " ", "i", "n">>,
          <<"t", "r", "a", "n", "s", "f", "o", "r", "m", "i", "n", "g", " ", "i", "n">>,
          <<"s", "h", "a", "p", "e", "s", "h", "i", "f", "t", "i", "n", "g", " ", "i", "n">>,
          <<"a", "w", "a", "k", "e", "n", "i", "n", "g", " ", "i", "n">>,
          <<"m", "o", "u", "r", "n", "i", "n", "g", " ", "i", "n">>,
          <<"c", "e", "l", "e", "b", "r", "a", "t", "i", "n", "g", " ", "i", "n">>,
          <<"c", "o", "n", "t", "e", "m", "p", "l", "a", "t", "i", "n", "g", " ", "i", "n">>,
          <<"d", "r", "e", "a", "m", "i", "n", "g", " ", "i", "n">>>>) @@
     (<<"e", "n", "v", "i", "r", "o", "n", "m", "e", "n", "t">> :>
        <<<<"a", " ", "d", "a", "r", "k", " ", "f", "o", "r", "e", "s", "t">>,
          <<"a", "n", " ", "e", "n", "c", "h", "a", "n", "t", "e", "d", " ", "f", "o", "r", "e", "s", "t">>,
          <<"a", " ", "m", "i", "s", "t", "y", " ", "f", "o", "r", "e", "s", "t">>,
          <<"a", " ", "b", "a", "m", "b", "o", "o", " ", "f", "o", "r", "e", "s", "t">>,
          <<"a", " ", "s", "n", "o", "w", "y", " ", "m", "o", "u", "n", "t", "a", "i", "n">>,
          <<"a", " ", "v", "o", "l", "c", "a", "n", "i", "c", " ", "m", "o", "u", "n", "t", "a", "i", "n">>,
          <<"a", " ", "f", "l", "o", "a", "t", "i", "n", "g", " ", "m", "o", "u", "n", "t", "a", "i", "n">>,
          <<"a", " ", "v", "a", "s", "t", " ", "d", "e", "s", "e", "r", "t">>,
          <<"a", "n", " ", "o", "a", "s", "i", "s">>,
          <<"a", " ", "c", "a", "n", "y", "o", "n">>,
          <<"a", " ", "w", "a", "t", "e", "r", "f", "a", "l", "l">>,
          <<"a", " ", "r", "i", "v", "e", "r">>,
          <<"a", " ", "b", "e", "a", "c", "h", " ", "a", "t", " ", "s", "u", "n", "s", "e", "t">>,
          <<"a", " ", "s", "t", "o", "r", "m", "y", " ", "s", "e", "a">>,
          <<"a", " ", "c", "o", "r", "a", "l", " ", "r", "e", "e", "f">>,
          <<"a", "n", " ", "u", "n", "d", "e", "r", "w", "a", "t", "e", "r", " ", "c", "a", "v", "e", "r", "n">>,
          <<"a", " ", "m", "e", "d", "i", "e", "v", "a", "l", " ", "c", "a", "s", "t", "l", "e">>,
          <<"a", " ", "r", "u", "i", "n", "e", "d", " ", "f", "o", "r", "t", "r", "e", "s", "s">>,
          <<"a", " ", "g", "o", "t", "h", "i", "c", " ", "c", "a", "t", "h", "e", "d", "r", "a", "l">>,
          <<"a", "n", " ", "a", "n", "c", "i", "e", "n", "t", " ", "t", "e", "m", "p", "l", "e">>,
          <<"a", " ", "h", "i", "d", "d", "e", "n", " ", "s", "h", "r", "i", "n", "e">>,
          <<"a", " ", "s", "a", "c", "r", "e", "d", " ", "g", "r", "o", "v", "e">>,
          <<"a", " ", "w", "i", "z", "a", "r", "d", "'", "s", " ", "t", "o", "w", "e", "r">>,
          <<"a", "n", " ", "a", "l", "c", "h", "e", "m", "i", "s", "t", "'", "s", " ", "l", "a", "b", "o", "r", "a", "t", "o", "r", "y">>,
          <<"a", " ", "r", "o", "y", "a", "l", " ", "t", "h", "r", "o", "n", "e", " ", "r", "o", "o", "m">>,
          <<"a", " ", "d", "u", "n", "g", "e", "o", "n">>,
          <<"c", "a", "t", "a", "c", "o", "m", "b", "s">>,
          <<"a", " ", "c", "r", "y", "p", "t">>,
          <<"a", " ", "g", "r", "a", "v", "e", "y", "a", "r", "d", " ", "a", "t", " ", "m", "i", "d", "n", "i", "g", "h", "t">>,
          <<"a", " ", "c", "y", "b", "e", "r", "p", "u", "n", "k", " ", "c", "i", "t", "y">>,
          <<"a", " ", "n", "e", "o", "n", "-", "l", "i", "t", " ", "a", "l", "l", "e", "y">>,
          <<"a", " ", "f", "u", "t", "u", "r", "i", "s", "t", "i", "c", " ", "m", "e", "t", "r", "o", "p", "o", "l", "i", "s">>,
          <<"a", " ", "s", "p", "a", "c", "e", " ", "s", "t", "a", "t", "i", "o", "n">>,
          <<"a", "n", " ", "a", "l", "i", "e", "n", " ", "p", "l", "a", "n", "e", "t">>,
          <<"a", " ", "t", "e", "r", "r", "a", "f", "o", "r", "m", "e", "d", " ", "m", "o", "o", "n">>,
          <<"a", " ", "d", "y", "s", "t", "o", "p", "i", "a", "n", " ", "w", "a", "s", "t", "e", "l", "a", "n", "d">>,
          <<"a", " ", "p", "o", "s", "t", "-", "a", "p", "o", "c", "a", "l", "y", "p", "t", "i", "c", " ", "c", "i", "t", "y">>,
          <<"a", " ", "m", "e", "g", "a", "s", "t", "r", "u", "c", "t", "u", "r", "e">>,
          <<"a", " ", "v", "i", "r", "t", "u", "a", "l", " ", "r", "e", "a", "l", "i", "t", "y", " ", "w", "o", "r", "l", "d">>,
          <<"i", "n", "s", "i", "d", "e", " ", "a", " ", "c", "o", "m", "p", "u", "t", "e", "r", " ", "m", "a", "i", "n", "f", "r", "a", "m", "e">>,
          <<"a", " ", "c", "r", "y", "s", "t", "a", "l", " ", "c", "a", "v", "e">>,
          <<"a", " ", "b", "i", "o", "l", "u", "m", "i", "n", "e", "s", "c", "e", "n", "t", " ", "c", "a", "v", "e", "r", "n">>,
          <<"a", " ", "f", "l", "o", "a", "t", "i", "n", "g", " ", "i", "s", "l", "a", "n", "d">>,
          <<"t", "h", "e", " ", "a", "s", "t", "r", "a", "l", " ", "p", "l", "a", "n", "e">>,
          <<"b", "e", "t", "w", "e", "e", "n", " ", "d", "i", "m", "e", "n", "s", "i", "o", "n", "s">>,
          <<"t", "h", "e", " ", "v", "o", "i", "d">>,
          <<"a", " ", "p", "o", "c", "k", "e", "t", " ", "d", "i", "m", "e", "n", "s", "i", "o", "n">>,
          <<"a", " ", "m", "i", "r", "r", "o", "r", " ", "w", "o", "r", "l", "d">>,
          <<"a", " ", "d", "r", "e", "a", "m", " ", "r", "e", "a", "l", "m">>,
          <<"c", "h", "e", "r", "r", "y", " ", "b", "l", "o", "s", "s", "o", "m", " ", "g", "a", "r", "d", "e", "n", "s">>,
          <<"a", "n", " ", "a", "u", "t", "u", "m", "n", " ", "f", "o", "r", "e", "s", "t">>,
          <<"a", " ", "f", "i", "e", "l", "d", " ", "o", "f", " ", "f", "l", "o", "w", "e", "r", "s">>,
          <<"u", "n", "d", "e", "r", " ", "t", "h", "e", " ", "n", "o", "r", "t", "h", "e", "r", "n", " ", "l", "i", "g", "h", "t", "s">>,
          <<"d", "u", "r", "i", "n", "g", " ", "a", " ", "s", "o", "l", "a", "r", " ", "e", "c", "l", "i", "p", "s", "e">>>>) @@
     (<<"s", "t", "y", "l", "e">> :>
        <<<<"p", "h", "o", "t", "o", "r", "e", "a", "l", "i", "s", "t", "i", "c">>,
          <<"h", "y", "p", "e", "r", "r", "e", "a", "l", "i", "s", "t", "i", "c">>,
          <<"c", "i", "n", "e", "m", "a", "t", "i", "c">>,
          <<"f", "i", "l", "m", " ", "s", "t", "i", "l", "l">>,
          <<"d", "o", "c", "u", "m", "e", "n", "t", "a", "r", "y", " ", "p", "h", "o", "t", "o", "g", "r", "a", "p", "h", "y">>,
          <<"p", "o", "r", "t", "r", "a", "i", "t", " ", "p", "h", "o", "t", "o", "g", "r", "a", "p", "h", "y">>,
          <<"f", "a", "s", "h", "i", "o", "n", " ", "p", "h", "o", "t", "o", "g", "r", "a", "p", "h", "y">>,
          <<"o", "i", "l", " ", "p", "a", "i", "n", "t", "i", "n", "g">>,
          <<"w", "a", "t", "e", "r", "c", "o", "l", "o", "r", " ", "p", "a", "i", "n", "t", "i", "n", "g">>,
          <<"a", "c", "r", "y", "l", "i", "c", " ", "p", "a", "i", "n", "t", "i", "n", "g">>,
          <<"g", "o", "u", "a", "c", "h", "e">>,
          <<"c", "h", "a", "r", "c", "o", "a", "l", " ", "d", "r", "a", "w", "i", "n", "g">>,
          <<"p", "e", "n", "c", "i", "l", " ", "s", "k", "e", "t", "c", "h">>,
          <<"i", "n", "k", " ", "d", "r", "a", "w", "i", "n", "g">>,
          <<"f", "r", "e", "s", "c", "o">>,
          <<"a", "r", "t", " ", "n", "o", "u", "v", "e", "a", "u">>,
          <<"a", "r", "t", " ", "d", "e", "c", "o">>,
          <<"b", "a", "r", "o", "q", "u", "e">>,
          <<"r", "e", "n", "a", "i", "s", "s", "a", "n", "c", "e">>,
          <<"r", "o", "m", "a", "n", "t", "i", "c", "i", "s", "m">>,
          <<"i", "m", "p", "r", "e", "s", "s", "i", "o", "n", "i", "s", "t">>,
          <<"e", "x", "p", "r", "e", "s", "s", "i", "o", "n", "i", "s", "t">>,
          <<"s", "u", "r", "r", "e", "a", "l", "i", "s", "t">>,
          <<"c", "u", "b", "i", "s", "t">>,
          <<"p", "r", "e", "-", "r", "a", "p", "h", "a", "e", "l", "i", "t", "e">>,
          <<"u", "k", "i", "y", "o", "-", "e">>,
          <<"c", "h", "i", "n", "e", "s", "e", " ", "i", "n", "k", " ", "w", "a", "s", "h">>,
          <<"c", "o", "n", "c", "e", "p", "t", " ", "a", "r", "t">>,
          <<"d", "i", "g", "i", "t", "a", "l", " ", "p", "a", "i", "n", "t", "i", "n", "g">>,
          <<"m", "a", "t", "t", "e", " ", "p", "a", "i", "n", "t", "i", "n", "g">>,
          <<"3", "D", " ", "r", "e", "n", "d", "e", "r">>,
          <<"l", "o", "w", " ", "p", "o", "l", "y", " ", "3", "D">>,
          <<"v", "o", "x", "e", "l", " ", "a", "r", "t">>,
          <<"p", "i", "x", "e", "l", " ", "a", "r", "t">>,
          <<"v", "e", "c", "t", "o", "r", " ", "a", "r", "t">>,
          <<"a", "n", "i", "m", "e", " ", "s", "t", "y", "l", "e">>,
          <<"m", "a", "n", "g", "a", " ", "s", "t", "y", "l", "e">>,
          <<"s", "t", "u", "d", "i", "o", " ", "g", "h", "i", "b", "l", "i", " ", "s", "t", "y", "l", "e">>,
          <<"d", "i", "s", "n", "e", "y", " ", "s", "t", "y", "l", "e">>,
          <<"p", "i", "x", "a", "r", " ", "s", "t", "y", "l", "e">>,
          <<"c", "a", "r", "t", "o", "o", "n", " ", "s", "t", "y", "l", "e">>,
          <<"c", "o", "m", "i", "c", " ", "b", "o", "o", "k", " ", "s", "t", "y", "l", "e">>,
          <<"g", "r", "a", "p", "h", "i", "c", " ", "n", "o", "v", "e", "l", " ", "s", "t", "y", "l", "e">>,
          <<"v", "a", "p", "o", "r", "w", "a", "v", "e", " ", "a", "e", "s", "t", "h", "e", "t", "i", "c">>,
          <<"s", "y", "n", "t", "h", "w", "a", "v", "e">>,
          <<"c", "y", "b", "e", "r", "p", "u", "n", "k", " ", "a", "e", "s", "t", "h", "e", "t", "i", "c">>,
          <<"s", "o", "l", "a", "r", "p", "u", "n", "k">>,
          <<"d", "a", "r", "k", " ", "a", "c", "a", "d", "e", "m", "i", "a">>,
          <<"c", "o", "t", "t", "a", "g", "e", "c", "o", "r", "e">>,
          <<"s", "t", "e", "a", "m", "p", "u", "n", "k">>,
          <<"d", "i", "e", "s", "e", "l", "p", "u", "n", "k">>,
          <<"b", "i", "o", "p", "u", "n", "k">>,
          <<"d", "a", "r", "k", " ", "s", "o", "u", "l", "s", " ", "s", "t", "y", "l", "e">>,
          <<"e", "l", "d", "e", "n", " ", "r", "i", "n", "g", " ", "s", "t", "y", "l", "e">>,
          <<"f", "i", "n", "a", "l", " ", "f", "a", "n", "t", "a", "s", "y", " ", "s", "t", "y", "l", "e">>>>) @@
     (<<"l", "i", "g", "h", "t", "i", "n", "g">> :>
        <<<<"g", "o", "l", "d", "e", "n", " ", "h", "o", "u", "r", " ", "l", "i", "g", "h", "t", "i", "n", "g">>,
          <<"b", "l", "u", "e", " ", "h", "o", "u", "r", " ", "l", "i", "g", "h", "t", "i", "n", "g">>,
          <<"h", "a", "r", "s", "h", " ", "m", "i", "d", "d", "a", "y", " ", "s", "u", "n">>,
          <<"s", "o", "f", "t", " ", "o", "v", "e", "r", "c", "a", "s", "t", " ", "l", "i", "g", "h", "t">>,
          <<"d", "a", "p", "p", "l", "e", "d", " ", "f", "o", "r", "e", "s", "t", " ", "l", "i", "g", "h", "t">>,
          <<"s", "u", "n", "s", "e", "t", " ", "b", "a", "c", "k", "l", "i", "g", "h", "t">>,
          <<"s", "u", "n", "r", "i", "s", "e", " ", "l", "i", "g", "h", "t">>,
          <<"m", "o", "o", "n", "l", "i", "g", "h", "t">>,
          <<"s", "t", "a", "r", "l", "i", "g", "h", "t">>,
          <<"d", "r", "a", "m", "a", "t", "i", "c", " ", "r", "i", "m", " ", "l", "i", "g", "h", "t", "i", "n", "g">>,
          <<"c", "h", "i", "a", "r", "o", "s", "c", "u", "r", "o", " ", "l", "i", "g", "h", "t", "i", "n", "g">>,
          <<"s", "p", "o", "t", "l", "i", "g", "h", "t">>,
          <<"h", "a", "r", "s", "h", " ", "s", "h", "a", "d", "o", "w", "s">>,
          <<"s", "i", "l", "h", "o", "u", "e", "t", "t", "e", " ", "l", "i", "g", "h", "t", "i", "n", "g">>,
          <<"c", "o", "n", "t", "r", "e", "-", "j", "o", "u", "r">>,
          <<"n", "e", "o", "n", " ", "l", "i", "g", "h", "t", "i", "n", "g">>,
          <<"f", "l", "u", "o", "r", "e", "s", "c", "e", "n", "t", " ", "l", "i", "g", "h", "t", "i", "n", "g">>,
          <<"c", "a", "n", "d", "l", "e", "l", "i", "g", "h", "t">>,
          <<"f", "i", "r", "e", "l", "i", "g", "h", "t">>,
          <<"b", "i", "o", "l", "u", "m", "i", "n", "e", "s", "c", "e", "n", "t", " ", "g", "l", "o", "w">>,
          <<"m", "a", "g", "i", "c", "a", "l", " ", "g", "l", "o", "w">>,
          <<"h", "o", "l", "o", "g", "r", "a", "p", "h", "i", "c", " ", "l", "i", "g", "h", "t">>,
          <<"v", "o", "l", "u", "m", "e", "t", "r", "i", "c", " ", "l", "i", "g", "h", "t", "i", "n", "g">>,
          <<"g", "o", "d", " ", "r", "a", "y", "s">>,
          <<"l", "i", "g", "h", "t", " ", "s", "h", "a", "f", "t", "s">>,
          <<"f", "o", "g", "g", "y", " ", "a", "t", "m", "o", "s", "p", "h", "e", "r", "e">>,
          <<"m", "i", "s", "t", "y", " ", "a", "t", "m", "o", "s", "p", "h", "e", "r", "e">>,
          <<"d", "u", "s", "t", "y", " ", "a", "t", "m", "o", "s", "p", "h", "e", "r", "e">>,
          <<"r", "a", "i", "n", "y", " ", "a", "t", "m", "o", "s", "p", "h", "e", "r", "e">>,
          <<"w", "a", "r", "m", " ", "l", "i", "g", "h", "t", "i", "n", "g">>,
          <<"c", "o", "o", "l", " ", "l", "i", "g", "h", "t", "i", "n", "g">>,
          <<"n", "e", "u", "t", "r", "a", "l", " ", "l", "i", "g", "h", "t", "i", "n", "g">>,
          <<"h", "i", "g", "h", " ", "c", "o", "n", "t", "r", "a", "s", "t">>,
          <<"l", "o", "w", " ", "k", "e", "y", " ", "l", "i", "g", "h", "t", "i", "n", "g">>,
          <<"h", "i", "g", "h", " ", "k", "e", "y", " ", "l", "i", "g", "h", "t", "i", "n", "g">>>>) @@
     (<<"c", "a", "m", "e", "r", "a">> :>
        <<<<"e", "x", "t", "r", "e", "m", "e", " ", "c", "l", "o", "s", "e", "-", "u", "p">>,
          <<"c", "l", "o", "s", "e", "-", "u", "p", " ", "p", "o", "r", "t", "r", "a", "i", "t">>,
          <<"m", "e", "d", "i", "u", "m", " ", "s", "h", "o", "t">>,
          <<"f", "u", "l", "l", " ", "b", "o", "d", "y", " ", "s", "h", "o", "t">>,
          <<"w", "i", "d", "e", " ", "s", "h", "o", "t">>,
          <<"e", "x", "t", "r", "e", "m", "e", " ", "w", "i", "d", "e", " ", "s", "h", "o", "t">>,
          <<"e", "s", "t", "a", "b", "l", "i", "s", "h", "i", "n", "g", " ", "s", "h", "o", "t">>,
          <<"e", "y", "e", " ", "l", "e", "v", "e", "l">>,
          <<"l", "o", "w", " ", "a", "n", "g", "l", "e", " ", "s", "h", "o", "t">>,
          <<"h", "i", "g", "h", " ", "a", "n", "g", "l", "e", " ", "s", "h", "o", "t">>,
          <<"b", "i", "r", "d", "'", "s", " ", "e", "y", "e", " ", "v", "i", "e", "w">>,
          <<"w", "o", "r", "m", "'", "s", " ", "e", "y", "e", " ", "v", "i", "e", "w">>,
          <<"d", "u", "t", "c", "h", " ", "a", "n", "g", "l", "e">>,
          <<"o", "v", "e", "r", "h", "e", "a", "d", " ", "s", "h", "o", "t">>,
          <<"f", "i", "r", "s", "t", " ", "p", "e", "r", "s", "o", "n", " ", "v", "i", "e", "w">>,
          <<"o", "v", "e", "r", " ", "t", "h", "e", " ", "s", "h", "o", "u", "l", "d", "e", "r">>,
          <<"p", "o", "i", "n", "t", " ", "o", "f", " ", "v", "i", "e", "w", " ", "s", "h", "o", "t">>,
          <<"t", "h", "r", "e", "e", "-", "q", "u", "a", "r", "t", "e", "r", " ", "v", "i", "e", "w">>,
          <<"p", "r", "o", "f", "i", "l", "e", " ", "v", "i", "e", "w">>,
          <<"f", "r", "o", "n", "t", "a", "l", " ", "v", "i", "e", "w">>,
          <<"r", "e", "a", "r", " ", "v", "i", "e", "w">>,
          <<"s", "h", "a", "l", "l", "o", "w", " ", "d", "e", "p", "t", "h", " ", "o", "f", " ", "f", "i", "e", "l", "d">>,
          <<"d", "e", "e", "p", " ", "f", "o", "c", "u", "s">>,
          <<"b", "o", "k", "e", "h", " ", "b", "a", "c", "k", "g", "r", "o", "u", "n", "d">>,
          <<"m", "o", "t", "i", "o", "n", " ", "b", "l", "u", "r">>,
          <<"l", "o", "n", "g", " ", "e", "x", "p", "o", "s", "u", "r", "e">>,
          <<"t", "i", "l", "t", "-", "s", "h", "i", "f", "t">>,
          <<"f", "i", "s", "h", "e", "y", "e", " ", "l", "e", "n", "s">>,
          <<"w", "i", "d", "e", " ", "a", "n", "g", "l", "e", " ", "l", "e", "n", "s">>,
          <<"t", "e", "l", "e", "p", "h", "o", "t", "o", " ", "c", "o", "m", "p", "r", "e", "s", "s", "i", "o", "n">>,
          <<"m", "a", "c", "r", "o", " ", "s", "h", "o", "t">>>>) @@
     (<<"d", "e", "t", "a", "i", "l", "s">> :>
        <<<<"h", "i", "g", "h", "l", "y", " ", "d", "e", "t", "a", "i", "l", "e", "d">>,
          <<"i", "n", "t", "r", "i", "c", "a", "t", "e", " ", "d", "e", "t", "a", "i", "l", "s">>,
          <<"f", "i", "n", "e", " ", "d", "e", "t", "a", "i", "l", "s">>,
          <<"s", "u", "b", "t", "l", "e", " ", "d", "e", "t", "a", "i", "l", "s">>,
          <<"s", "h", "a", "r", "p", " ", "f", "o", "c", "u", "s">>,
          <<"c", "r", "y", "s", "t", "a", "l", " ", "c", "l", "e", "a", "r">>,
          <<"p", "r", "i", "s", "t", "i", "n", "e", " ", "q", "u", "a", "l", "i", "t", "y">>,
          <<"4", "k">>,
          <<"8", "k">>,
          <<"h", "i", "g", "h", " ", "r", "e", "s", "o", "l", "u", "t", "i", "o", "n">>,
          <<"u", "l", "t", "r", "a", " ", "H", "D">>,
          <<"m", "a", "s", "t", "e", "r", "p", "i", "e", "c", "e">>,
          <<"a", "w", "a", "r", "d", " ", "w", "i", "n", "n", "i", "n", "g">>,
          <<"p", "r", "o", "f", "e", "s", "s", "i", "o", "n", "a", "l">>,
          <<"m", "u", "s", "e", "u", "m", " ", "q", "u", "a", "l", "i", "t", "y">>,
          <<"t", "r", "e", "n", "d", "i", "n", "g", " ", "o", "n", " ", "a", "r", "t", "s", "t", "a", "t", "i", "o", "n">>,
          <<"f", "e", "a", "t", "u", "r", "e", "d", " ", "o", "n", " ", "b", "e", "h", "a", "n", "c", "e">>,
          <<"g", "a", "l", "l", "e", "r", "y", " ", "q", "u", "a", "l", "i", "t", "y">>,
          <<"r", "a", "y", " ", "t", "r", "a", "c", "i", "n", "g">>,
          <<"g", "l", "o", "b", "a", "l", " ", "i", "l", "l", "u", "m", "i", "n", "a", "t", "i", "o", "n">>,
          <<"s", "u", "b", "s", "u", "r", "f", "a", "c", "e", " ", "s", "c", "a", "t", "t", "e", "r", "i", "n", "g">>,
          <<"a", "m", "b", "i", "e", "n", "t", " ", "o", "c", "c", "l", "u", "s", "i", "o", "n">>,
          <<"r", "e", "a", "l", "i", "s", "t", "i", "c", " ", "t", "e", "x", "t", "u", "r", "e", "s">>,
          <<"p", "h", "o", "t", "o", "g", "r", "a", "m", "m", "e", "t", "r", "y">>,
          <<"e", "x", "p", "r", "e", "s", "s", "i", "v", "e", " ", "b", "r", "u", "s", "h", "w", "o", "r", "k">>,
          <<"v", "i", "s", "i", "b", "l", "e", " ", "b", "r", "u", "s", "h", "s", "t", "r", "o", "k", "e", "s">>,
          <<"s", "m", "o", "o", "t", "h", " ", "g", "r", "a", "d", "i", "e", "n", "t", "s">>,
          <<"r", "i", "c", "h", " ", "c", "o", "l", "o", "r", "s">>,
          <<"v", "i", "b", "r", "a", "n", "t", " ", "p", "a", "l", "e", "t", "t", "e">>,
          <<"m", "u", "t", "e", "d", " ", "t", "o", "n", "e", "s">>,
          <<"m", "o", "n", "o", "c", "h", "r", "o", "m", "a", "t", "i", "c">>>>) @@
     (<<"m", "o", "o", "d">> :>
        <<<<"s", "e", "r", "e", "n", "e">>,
          <<"p", "e", "a", "c", "e", "f", "u", "l">>,
          <<"t", "r", "a", "n", "q", "u", "i", "l">>,
          <<"j", "o", "y", "f", "u", "l">>,
          <<"e", "u", "p", "h", "o", "r", "i", "c">>,
          <<"w", "h", "i", "m", "s", "i", "c", "a", "l">>,
          <<"p", "l", "a", "y", "f", "u", "l">>,
          <<"r", "o", "m", "a", "n", "t", "i", "c">>,
          <<"h", "o", "p", "e", "f", "u", "l">>,
          <<"t", "r", "i", "u", "m", "p", "h", "a", "n", "t">>,
          <<"o", "m", "i", "n", "o", "u", "s">>,
          <<"f", "o", "r", "e", "b", "o", "d", "i", "n", "g">>,
          <<"m", "e", "l", "a", "n", "c", "h", "o", "l", "i", "c">>,
          <<"s", "o", "r", "r", "o", "w", "f", "u", "l">>,
          <<"t", "r", "a", "g", "i", "c">>,
          <<"t", "e", "r", "r", "i", "f", "y", "i", "n", "g">>,
          <<"h", "o", "r", "r", "i", "f", "i", "c">>,
          <<"u", "n", "s", "e", "t", "t", "l", "i", "n", "g">>,
          <<"d", "i", "s", "t", "u", "r", "b", "i", "n", "g">>,
          <<"m", "y", "s", "t", "e", "r", "i", "o", "u", "s">>,
          <<"e", "n", "i", "g", "m", "a", "t", "i", "c">>,
          <<"s", "u", "r", "r", "e", "a", "l">>,
          <<"d", "r", "e", "a", "m", "l", "i", "k", "e">>,
          <<"e", "t", "h", "e", "r", "e", "a", "l">>,
          <<"n", "o", "s", "t", "a", "l", "g", "i", "c">>,
          <<"b", "i", "t", "t", "e", "r", "s", "w", "e", "e", "t">>,
          <<"c", "o", "n", "t", "e", "m", "p", "l", "a", "t", "i", "v", "e">>,
          <<"i", "n", "t", "r", "o", "s", "p", "e", "c", "t", "i", "v", "e">>,
          <<"t", "e", "n", "s", "e">>,
          <<"i", "n", "t", "e", "n", "s", "e">>,
          <<"c", "h", "a", "o", "t", "i", "c">>,
          <<"e", "x", "p", "l", "o", "s", "i", "v", "e">>,
          <<"d", "y", "n", "a", "m", "i", "c">>,
          <<"c", "a", "l", "m">>,
          <<"s", "t", "i", "l", "l">>,
          <<"q", "u", "i", "e", "t">>,
          <<"s", "u", "b", "t", "l", "e">>,
          <<"u", "n", "d", "e", "r", "s", "t", "a", "t", "e", "d">>,
          <<"e", "p", "i", "c">>,
          <<"g", "r", "a", "n", "d">>,
          <<"i", "n", "t", "i", "m", "a", "t", "e">>,
          <<"c", "o", "z", "y">>,
          <<"l", "o", "n", "e", "l", "y">>,
          <<"i", "s", "o", "l", "a", "t", "e", "d">>>>),
   classification |->
     (<<"s", "u", "b", "j", "e", "c", "t">> :>
        [keywords |->
          {<<"w", "o", "m", "a", "n">>,
           <<"m", "a", "n">>,
           <<"g", "i", "r", "l">>,
           <<"b", "o", "y">>,
           <<"p", "e", "r", "s", "o", "n">>,
           <<"p", "e", "o", "p", "l", "e">>,
           <<"c", "h", "i", "l", "d">>,
           <<"t", "e", "e", "n">>,
           <<"k", "n", "i", "g", "h", "t">>,
           <<"w", "i", "z", "a", "r", "d">>,
           <<"w", "i", "t", "c", "h">>,
           <<"w", "a", "r", "r", "i", "o", "r">>,
           <<"s", "o", "l", "d", "i", "e", "r">>,
           <<"s", "a", "m", "u", "r", "a", "i">>,
           <<"n", "i", "n", "j", "a">>,
           <<"d", "r", "a", "g", "o", "n">>,
           <<"p", "h", "o", "e", "n", "i", "x">>,
           <<"w", "o", "l", "f">>,
           <<"l", "i", "o", "n">>,
           <<"t", "i", "g", "e", "r">>,
           <<"c", "a", "t">>,
           <<"d", "o", "g">>,
           <<"b", "i", "r", "d">>,
           <<"r", "o", "b", "o", "t">>,
           <<"a", "n", "d", "r", "o", "i", "d">>,
           <<"c", "y", "b", "o", "r", "g">>,
           <<"a", "l", "i", "e", "n">>,
           <<"d", "e", "m", "o", "n">>,
           <<"a", "n", "g", "e", "l">>,
           <<"g", "h", "o", "s", "t">>,
           <<"f", "a", "i", "r", "y">>,
           <<"e", "l", "f">>,
           <<"d", "w", "a", "r", "f">>,
           <<"o", "r", "c">>,
           <<"g", "o", "b", "l", "i", "n">>,
           <<"v", "a", "m", "p", "i", "r", "e">>,
           <<"w", "e", "r", "e", "w", "o", "l", "f">>},
         patterns |->
          <<<<"^", "a", " ">>,
            <<"^", "a", "n", " ">>,
            <<"^", "t", "h", "e", " ">>,
            <<"^", "m", "y", " ">>>>]) @@
     (<<"a", "c", "t", "i", "o", "n">> :>
        [keywords |->
          {<<"s", "t", "a", "n", "d", "i", "n", "g">>,
           <<"s", "i", "t", "t", "i", "n", "g">>,
           <<"w", "a", "l", "k", "i", "n", "g">>,
           <<"r", "u", "n", "n", "i", "n", "g">>,
           <<"f", "l", "y", "i", "n", "g">>,
           <<"s", "w", "i", "m", "m", "i", "n", "g">>,
           <<"f", "i", "g", "h", "t", "i", "n", "g">>,
           <<"b", "a", "t", "t", "l", "i", "n", "g">>,
           <<"d", "a", "n", "c", "i", "n", "g">>,
           <<"s", "i", "n", "g", "i", "n", "g">>,
           <<"p", "l", "a", "y", "i", "n", "g">>,
           <<"r", "e", "a", "d", "i", "n", "g">>,
           <<"c", "a", "s", "t", "i", "n", "g">>,
           <<"s", "u", "m", "m", "o", "n", "i", "n", "g">>,
           <<"m", "e", "d", "i", "t", "a", "t", "i", "n", "g">>,
           <<"p", "r", "a", "y", "i", "n", "g">>,
           <<"s", "l", "e", "e", "p", "i", "n", "g">>,
           <<"d", "r", "e", "a", "m", "i", "n", "g">>,
           <<"e", "x", "p", "l", "o", "r", "i", "n", "g">>,
           <<"h", "u", "n", "t", "i", "n", "g">>,
           <<"s", "e", "a", "r", "c", "h", "i", "n", "g">>,
           <<"w", "a", "t", "c", "h", "i", "n", "g">>,
           <<"w", "a", "i", "t", "i", "n", "g">>},
         patterns |->
          <<<<"i", "n", "g", "\\", "s", "+", "(", "i", "n", "|", "o", "n", "|", "a", "t", "|", "t", "h", "r", "o", "u", "g", "h", "|", "o", "v", "e", "r", "|", "a", "b", "o", "v", "e", "|", "b", "e", "l", "o", "w", "|", "n", "e", "a", "r", ")">>>>]) @@
     (<<"e", "n", "v", "i", "r", "o", "n", "m", "e", "n", "t">> :>
        [keywords |->
          {<<"f", "o", "r", "e", "s", "t">>,
           <<"m", "o", "u", "n", "t", "a", "i", "n">>,
           <<"d", "e", "s", "e", "r", "t">>,
           <<"o", "c", "e", "a", "n">>,
           <<"s", "e", "a">>,
           <<"b", "e", "a", "c", "h">>,
           <<"r", "i", "v", "e", "r">>,
           <<"c", "i", "t", "y">>,
           <<"t", "o", "w", "n">>,
           <<"v", "i", "l", "l", "a", "g", "e">>,
           <<"c", "a", "s", "t", "l", "e">>,
           <<"t", "o", "w", "e", "r">>,
           <<"t", "e", "m", "p", "l", "e">>,
           <<"c", "h", "u", "r", "c", "h">>,
           <<"c", "a", "v", "e">>,
           <<"c", "a", "v", "e", "r", "n">>,
           <<"d", "u", "n", "g", "e", "o", "n">>,
           <<"r", "u", "i", "n", "s">>,
           <<"w", "a", "s", "t", "e", "l", "a", "n", "d">>,
           <<"g", "a", "r", "d", "e", "n">>,
           <<"s", "p", "a", "c", "e">>,
           <<"p", "l", "a", "n", "e", "t">>,
           <<"m", "o", "o", "n">>,
           <<"s", "t", "a", "t", "i", "o", "n">>,
           <<"v", "o", "i", "d">>,
           <<"d", "i", "m", "e", "n", "s", "i", "o", "n">>,
           <<"r", "e", "a", "l", "m">>},
         patterns |->
          <<<<"^", "i", "n", " ", "(", "a", " ", "|", "a", "n", " ", "|", "t", "h", "e", " ", ")", "?">>,
            <<"^", "a", "t", " ", "(", "a", " ", "|", "a", "n", " ", "|", "t", "h", "e", " ", ")", "?">>,
            <<"^", "i", "n", "s", "i", "d", "e">>>>]) @@
     (<<"s", "t", "y", "l", "e">> :>
        [keywords |->
          {<<"p", "h", "o", "t", "o", "r", "e", "a", "l", "i", "s", "t", "i", "c">>,
           <<"h", "y", "p", "e", "r", "r", "e", "a", "l", "i", "s", "t", "i", "c">>,
           <<"r", "e", "a", "l", "i", "s", "t", "i", "c">>,
           <<"c", "i", "n", "e", "m", "a", "t", "i", "c">>,
           <<"p", "a", "i", "n", "t", "i", "n", "g">>,
           <<"d", "r", "a", "w", "i", "n", "g">>,
           <<"s", "k", "e", "t", "c", "h">>,
           <<"i", "l", "l", "u", "s", "t", "r", "a", "t", "i", "o", "n">>,
           <<"r", "e", "n", "d", "e", "r">>,
           <<"a", "n", "i", "m", "e">>,
           <<"m", "a", "n", "g", "a">>,
           <<"c", "a", "r", "t", "o", "o", "n">>,
           <<"c", "o", "m", "i", "c">>,
           <<"p", "i", "x", "e", "l">>,
           <<"v", "o", "x", "e", "l">>,
           <<"b", "a", "r", "o", "q", "u", "e">>,
           <<"r", "e", "n", "a", "i", "s", "s", "a", "n", "c", "e">>,
           <<"i", "m", "p", "r", "e", "s", "s", "i", "o", "n", "i", "s", "t">>,
           <<"s", "u", "r", "r", "e", "a", "l", "i", "s", "t">>,
           <<"c", "y", "b", "e", "r", "p", "u", "n", "k">>,
           <<"s", "t", "e", "a", "m", "p", "u", "n", "k">>,
           <<"s", "o", "l", "a", "r", "p", "u", "n", "k">>,
           <<"d", "i", "e", "s", "e", "l", "p", "u", "n", "k">>,
           <<"a", "r", "t", " ", "n", "o", "u", "v", "e", "a", "u">>,
           <<"a", "r", "t", " ", "d", "e", "c", "o">>,
           <<"g", "o", "t", "h", "i", "c">>,
           <<"v", "i", "c", "t", "o", "r", "i", "a", "n">>},
         patterns |->
          <<<<"s", "t", "y", "l", "e", "$">>,
            <<"a", "e", "s", "t", "h", "e", "t", "i", "c", "$">>,
            <<"^", "i", "n", " ", "t", "h", "e", " ", "s", "t", "y", "l", "e", " ", "o", "f">>>>]) @@
     (<<"l", "i", "g", "h", "t", "i", "n", "g">> :>
        [keywords |->
          {<<"l", "i", "g", "h", "t", "i", "n", "g">>,
           <<"l", "i", "g", "h", "t">>,
           <<"l", "i", "t">>,
           <<"g", "l", "o", "w">>,
           <<"g", "l", "o", "w", "i", "n", "g">>,
           <<"i", "l", "l", "u", "m", "i", "n", "a", "t", "e", "d">>,
           <<"s", "h", "a", "d", "o", "w">>,
           <<"s", "h", "a", "d", "o", "w", "s">>,
           <<"s", "u", "n", "l", "i", "g", "h", "t">>,
           <<"m", "o", "o", "n", "l", "i", "g", "h", "t">>,
           <<"s", "t", "a", "r", "l", "i", "g", "h", "t">>,
           <<"g", "o", "l", "d", "e", "n", " ", "h", "o", "u", "r">>,
           <<"b", "l", "u", "e", " ", "h", "o", "u", "r">>,
           <<"s", "u", "n", "s", "e", "t">>,
           <<"s", "u", "n", "r", "i", "s", "e">>,
           <<"d", "a", "w", "n">>,
           <<"d", "u", "s", "k">>,
           <<"n", "e", "o", "n">>,
           <<"f", "l", "u", "o", "r", "e", "s", "c", "e", "n", "t">>,
           <<"c", "a", "n", "d", "l", "e", "l", "i", "g", "h", "t">>,
           <<"f", "i", "r", "e", "l", "i", "g", "h", "t">>,
           <<"t", "o", "r", "c", "h", "l", "i", "g", "h", "t">>},
         patterns |->
          <<<<"l", "i", "g", "h", "t", "i", "n", "g", "$">>,
            <<"l", "i", "g", "h", "t", "$">>,
            <<"l", "i", "t", "$">>>>]) @@
     (<<"c", "a", "m", "e", "r", "a">> :>
        [keywords |->
          {<<"c", "l", "o", "s", "e", "-", "u", "p">>,
           <<"c", "l", "o", "s", "e", "u", "p">>,
           <<"w", "i", "d", "e", " ", "s", "h", "o", "t">>,
           <<"m", "e", "d", "i", "u", "m", " ", "s", "h", "o", "t">>,
           <<"f", "u", "l", "l", " ", "b", "o", "d", "y">>,
           <<"p", "o", "r", "t", "r", "a", "i", "t">>,
           <<"a", "n", "g", "l", "e">>,
           <<"v", "i", "e", "w">>,
           <<"p", "e", "r", "s", "p", "e", "c", "t", "i", "v", "e">>,
           <<"l", "e", "n", "s">>,
           <<"b", "o", "k", "e", "h">>,
           <<"d", "e", "p", "t", "h", " ", "o", "f", " ", "f", "i", "e", "l", "d">>,
           <<"d", "o", "f">>,
           <<"f", "o", "c", "u", "s">>,
           <<"b", "l", "u", "r">>,
           <<"f", "i", "s", "h", "e", "y", "e">>,
           <<"t", "e", "l", "e", "p", "h", "o", "t", "o">>,
           <<"m", "a", "c", "r", "o">>,
           <<"t", "i", "l", "t", "-", "s", "h", "i", "f", "t">>},
         patterns |->
          <<<<"s", "h", "o", "t", "$">>,
            <<"a", "n", "g", "l", "e", "$">>,
            <<"v", "i", "e", "w", "$">>,
            <<"^", "\\", "d", "+", "m", "m">>>>]) @@
     (<<"d", "e", "t", "a", "i", "l", "s">> :>
        [keywords |->
          {<<"d", "e", "t", "a", "i", "l", "e", "d">>,
           <<"i", "n", "t", "r", "i", "c", "a", "t", "e">>,
           <<"s", "h", "a", "r", "p">>,
           <<"c", "r", "i", "s", "p">>,
           <<"c", "l", "e", "a", "r">>,
           <<"4", "k">>,
           <<"8", "k">>,
           <<"h", "d">>,
           <<"u", "h", "d">>,
           <<"h", "i", "g", "h", " ", "r", "e", "s", "o", "l", "u", "t", "i", "o", "n">>,
           <<"m", "a", "s", "t", "e", "r", "p", "i", "e", "c", "e">>,
           <<"q", "u", "a", "l", "i", "t", "y">>,
           <<"p", "r", "o", "f", "e", "s", "s", "i", "o", "n", "a", "l">>,
           <<"a", "w", "a", "r", "d">>,
           <<"a", "r", "t", "s", "t", "a", "t", "i", "o", "n">>,
           <<"b", "e", "h", "a", "n", "c", "e">>,
           <<"t", "r", "e", "n", "d", "i", "n", "g">>},
         patterns |->
          <<<<"d", "e", "t", "a", "i", "l", "e", "d", "$">>,
            <<"q", "u", "a", "l", "i", "t", "y", "$">>,
            <<"^", "\\", "d", "+", "k", "$">>>>]) @@
     (<<"m", "o", "o", "d">> :>
        [keywords |->
          {<<"s", "e", "r", "e", "n", "e">>,
           <<"p", "e", "a", "c", "e", "f", "u", "l">>,
           <<"c", "a", "l", "m">>,
           <<"t", "r", "a", "n", "q", "u", "i", "l">>,
           <<"j", "o", "y", "f", "u", "l">>,
           <<"h", "a", "p", "p", "y">>,
           <<"d", "a", "r", "k">>,
           <<"o", "m", "i", "n", "o", "u", "s">>,
           <<"f", "o", "r", "e", "b", "o", "d", "i", "n", "g">>,
           <<"m", "y", "s", "t", "e", "r", "i", "o", "u", "s">>,
           <<"e", "e", "r", "i", "e">>,
           <<"e", "p", "i", "c">>,
           <<"d", "r", "a", "m", "a", "t", "i", "c">>,
           <<"i", "n", "t", "e", "n", "s", "e">>,
           <<"d", "y", "n", "a", "m", "i", "c">>,
           <<"c", "h", "a", "o", "t", "i", "c">>,
           <<"m", "e", "l", "a", "n", "c", "h", "o", "l", "i", "c">>,
           <<"s", "a", "d">>,
           <<"n", "o", "s", "t", "a", "l", "g", "i", "c">>,
           <<"r", "o", "m", "a", "n", "t", "i", "c">>,
           <<"d", "r", "e", "a", "m", "y">>},
         patterns |->
          <<<<"a", "t", "m", "o", "s", "p", "h", "e", "r", "e", "$">>,
            <<"m", "o", "o", "d", "$">>,
            <<"f", "e", "e", "l", "i", "n", "g", "$">>,
            <<"v", "i", "b", "e", "$">>>>]),
   rules |->
     [mandatory |-> {<<"d", "e", "t", "a", "i", "l", "s">>},
      standard |-> {<<"s", "t", "y", "l", "e">>,
               <<"l", "i", "g", "h", "t", "i", "n", "g">>,
               <<"e", "n", "v", "i", "r", "o", "n", "m", "e", "n", "t">>,
               <<"c", "a", "m", "e", "r", "a">>},
      optional |-> {<<"m", "o", "o", "d">>,
               <<"a", "c", "t", "i", "o", "n">>}],
   anti_pairs |->
     (<<"u", "n", "d", "e", "r", "w", "a", "t", "e", "r">> :>
        {<<"s", "u", "n", "s", "e", "t">>,
        <<"s", "u", "n", "r", "i", "s", "e">>,
        <<"g", "o", "l", "d", "e", "n", " ", "h", "o", "u", "r">>,
        <<"h", "a", "r", "s", "h", " ", "s", "u", "n", "l", "i", "g", "h", "t">>,
        <<"d", "u", "s", "t", "y", " ", "a", "t", "m", "o", "s", "p", "h", "e", "r", "e">>}) @@
     (<<"s", "p", "a", "c", "e", " ", "s", "t", "a", "t", "i", "o", "n">> :>
        {<<"g", "o", "l", "d", "e", "n", " ", "h", "o", "u", "r">>,
        <<"f", "o", "r", "e", "s", "t", " ", "l", "i", "g", "h", "t">>,
        <<"d", "a", "p", "p", "l", "e", "d">>}) @@
     (<<"c", "a", "v", "e">> :>
        {<<"g", "o", "l", "d", "e", "n", " ", "h", "o", "u", "r">>,
        <<"b", "l", "u", "e", " ", "h", "o", "u", "r">>,
        <<"s", "u", "n", "s", "e", "t", " ", "b", "a", "c", "k", "l", "i", "g", "h", "t">>,
        <<"h", "a", "r", "s", "h", " ", "m", "i", "d", "d", "a", "y", " ", "s", "u", "n">>}) @@
     (<<"n", "i", "g", "h", "t">> :>
        {<<"h", "a", "r", "s", "h", " ", "m", "i", "d", "d", "a", "y", " ", "s", "u", "n">>,
        <<"b", "r", "i", "g", "h", "t", " ", "d", "a", "y", "l", "i", "g", "h", "t">>,
        <<"g", "o", "l", "d", "e", "n", " ", "h", "o", "u", "r">>}) @@
     (<<"g", "r", "a", "v", "e", "y", "a", "r", "d">> :>
        {<<"j", "o", "y", "f", "u", "l">>,
        <<"p", "l", "a", "y", "f", "u", "l">>,
        <<"w", "h", "i", "m", "s", "i", "c", "a", "l">>,
        <<"e", "u", "p", "h", "o", "r", "i", "c">>}) @@
     (<<"s", "u", "n", "n", "y">> :>
        {<<"o", "m", "i", "n", "o", "u", "s">>,
        <<"f", "o", "r", "e", "b", "o", "d", "i", "n", "g">>,
        <<"h", "o", "r", "r", "i", "f", "i", "c">>,
        <<"t", "e", "r", "r", "i", "f", "y", "i", "n", "g">>}) @@
     (<<"p", "i", "x", "e", "l", " ", "a", "r", "t">> :>
        {<<"r", "a", "y", " ", "t", "r", "a", "c", "i", "n", "g">>,
        <<"p", "h", "o", "t", "o", "g", "r", "a", "m", "m", "e", "t", "r", "y">>,
        <<"s", "u", "b", "s", "u", "r", "f", "a", "c", "e", " ", "s", "c", "a", "t", "t", "e", "r", "i", "n", "g">>,
        <<"h", "y", "p", "e", "r", "r", "e", "a", "l", "i", "s", "t", "i", "c">>}) @@
     (<<"w", "a", "t", "e", "r", "c", "o", "l", "o", "r">> :>
        {<<"8", "k">>,
        <<"p", "h", "o", "t", "o", "g", "r", "a", "m", "m", "e", "t", "r", "y">>,
        <<"h", "y", "p", "e", "r", "r", "e", "a", "l", "i", "s", "t", "i", "c">>,
        <<"r", "a", "y", " ", "t", "r", "a", "c", "i", "n", "g">>}) @@
     (<<"s", "k", "e", "t", "c", "h">> :>
        {<<"r", "a", "y", " ", "t", "r", "a", "c", "i", "n", "g">>,
        <<"p", "h", "o", "t", "o", "g", "r", "a", "m", "m", "e", "t", "r", "y">>,
        <<"8", "k", " ", "r", "e", "s", "o", "l", "u", "t", "i", "o", "n">>}) @@
     (<<"m", "o", "o", "n", "l", "i", "g", "h", "t">> :>
        {<<"h", "a", "r", "s", "h", " ", "m", "i", "d", "d", "a", "y", " ", "s", "u", "n">>,
        <<"g", "o", "l", "d", "e", "n", " ", "h", "o", "u", "r">>,
        <<"b", "r", "i", "g", "h", "t", " ", "d", "a", "y", "l", "i", "g", "h", "t">>}) @@
     (<<"n", "e", "o", "n">> :>
        {<<"c", "a", "n", "d", "l", "e", "l", "i", "g", "h", "t">>,
        <<"f", "i", "r", "e", "l", "i", "g", "h", "t">>,
        <<"t", "o", "r", "c", "h", "l", "i", "g", "h", "t">>,
        <<"m", "e", "d", "i", "e", "v", "a", "l">>})]

-----------------------------------------------------------------------------
(* Bounds of the model                                                     *)

\* seeds 0..MaxSeed
MaxSeed == 3

\* max_words 1..MaxSmallLimit, besides the default MAX_WORDS
MaxSmallLimit == 3

MAX_WORDS == 150

Seeds == 0..MaxSeed

Limits == 1..MaxSmallLimit \cup {MAX_WORDS}

-----------------------------------------------------------------------------
(* State: the profile the calls are given, and each caller's call of       *)
(* enhance_prompt: its arguments, its position and its local variables     *)

Callers == {"c1", "c2"}

\* a call that has just been entered
Entered(input_prompt, seed, intensity, max_words) ==
  [pc           |-> "entered",
   input_prompt |-> input_prompt,
   seed         |-> seed,
   intensity    |-> intensity,
   max_words    |-> max_words,
   tokens       |-> <<>>,
   classified   |-> <<>>,
   gaps         |-> <<>>,
   input_hash   |-> <<0, 0>>,
   forbidden    |-> {},
   enhancements |-> <<>>,
   template     |-> <<>>,
   components   |-> <<>>,
   enhanced     |-> <<>>,
   ret          |-> <<>>]

Idle == [Entered(<<>>, 0, "full", 1) EXCEPT !.pc = "idle"]

\* the caller is not inside enhance_prompt
AtRest(c) == call[c].pc \in {"idle", "returned", "raised", "hung"}

\* enhance_prompt is called directly: no node has run, and no profile file is read
EngineOnly ==
  /\ profile_cache = [n \in {} |-> DEFAULT_PROFILE]
  /\ profiles_dir = [n \in {} |-> DEFAULT_PROFILE]

Init ==
  /\ profile \in Profiles
  /\ call = [c \in Callers |-> Idle]
  /\ EngineOnly

\* the caller calls enhance_prompt(input_prompt, seed, profile, intensity, max_words)
CallWith(c, prompts, seeds, intensities, limits) ==
  /\ AtRest(c)
  /\ \E p \in prompts, s \in seeds, i \in intensities, m \in limits :
        call' = [call EXCEPT ![c] = Entered(p, s, i, m)]
  /\ UNCHANGED <<profile, profile_cache, profiles_dir>>

Call(c, prompts, limits) == CallWith(c, prompts, Seeds, Intensities, limits)

\* lines 781-783: the early return
ReturnEmpty(c) ==
  /\ call[c].pc = "entered"
  /\ IsBlank(call[c].input_prompt)
  /\ call' = [call EXCEPT ![c].pc = "returned", ![c].ret = call[c].input_prompt]
  /\ UNCHANGED <<profile, profile_cache, profiles_dir>>

Tokenize(c) ==
  /\ call[c].pc = "entered"
  /\ ~IsBlank(call[c].input_prompt)
  /\ call' = [call EXCEPT ![c].pc = "tokenized",
                          ![c].tokens = tokenize(call[c].input_prompt)]
  /\ UNCHANGED <<profile, profile_cache, profiles_dir>>

Classify(c) ==
  /\ call[c].pc = "tokenized"
  /\ call' = [call EXCEPT ![c].pc = "classified",
                          ![c].classified =
                             classify_all_tokens(call[c].tokens, profile.classification)]
  /\ UNCHANGED <<profile, profile_cache, profiles_dir>>

\* find_gaps: the set difference is listed in some order, then sorted
FindGaps(c) ==
  /\ call[c].pc = "classified"
  /\ \E listed \in Listings(GapSet(call[c].classified, profile.pools)) :
        call' = [call EXCEPT ![c].pc = "gaps_found", ![c].gaps = find_gaps(listed)]
  /\ UNCHANGED <<profile, profile_cache, profiles_dir>>

ApplyRules(c) ==
  /\ call[c].pc = "gaps_found"
  /\ call' = [call EXCEPT ![c].pc = "rules_applied",
                          ![c].gaps = apply_category_rules(call[c].gaps, profile.rules,
                                                           call[c].intensity)]
  /\ UNCHANGED <<profile, profile_cache, profiles_dir>>

\* lines 805-806: the fingerprint of the prompt, then the intensity thinning
SelectGaps(c) ==
  /\ call[c].pc = "rules_applied"
  /\ LET input_hash == xxh32(Encode(call[c].input_prompt), W32(0))
     IN  call' = [call EXCEPT ![c].pc = "gaps_selected",
                              ![c].input_hash = input_hash,
                              ![c].gaps = select_gaps_to_fill(call[c].seed, input_hash,
                                            call[c].gaps, call[c].intensity)]
  /\ UNCHANGED <<profile, profile_cache, profiles_dir>>

\* the selection stage, were the first item taken out of each pool a gap is
\* filled from
SelectEnhancements_popping(c) ==
  /\ call[c].pc = "gaps_selected"
  /\ LET forbidden == build_forbidden_set(ExistingTokens(call[c].classified),
                                          profile.anti_pairs)
         picked == GapsToSelect(call[c].gaps, profile.pools)
     IN  /\ IF \E g \in picked : profile.pools[g] = <<>>
              THEN call' = [call EXCEPT ![c].pc = "raised", ![c].forbidden = forbidden]
              ELSE call' = [call EXCEPT ![c].pc = "enhancements_selected",
                                        ![c].forbidden = forbidden,
                                        ![c].enhancements =
                                           SelectEnhancementsFor(call[c].seed, call[c].input_hash,
                                             call[c].gaps, profile.pools, forbidden)]
         /\ profile' = [profile EXCEPT !.pools =
                          [g \in DOMAIN profile.pools |->
                             IF g \in picked /\ profile.pools[g] # <<>>
                               THEN Tail(profile.pools[g]) ELSE profile.pools[g]]]
  /\ UNCHANGED <<profile_cache, profiles_dir>>

\* lines 810-824; hash_to_index on an empty pool divides by zero
SelectEnhancements(c) ==
  /\ call[c].pc = "gaps_selected"
  /\ LET forbidden == build_forbidden_set(ExistingTokens(call[c].classified),
                                          profile.anti_pairs)
     IN  IF \E g \in GapsToSelect(call[c].gaps, profile.pools) : profile.pools[g] = <<>>
         THEN call' = [call EXCEPT ![c].pc = "raised", ![c].forbidden = forbidden]
         ELSE call' = [call EXCEPT ![c].pc = "enhancements_selected",
                                   ![c].forbidden = forbidden,
                                   ![c].enhancements =
                                      SelectEnhancementsFor(call[c].seed, call[c].input_hash,
                                        call[c].gaps, profile.pools, forbidden)]
  /\ UNCHANGED <<profile, profile_cache, profiles_dir>>

\* lines 827-839; hash_to_index on an empty template list divides by zero
BuildComponents(c) ==
  /\ call[c].pc = "enhancements_selected"
  /\ IF profile.templates = <<>>
     THEN call' = [call EXCEPT ![c].pc = "raised"]
     ELSE call' = [call EXCEPT ![c].pc = "components_built",
                               ![c].template = select_template(call[c].seed,
                                                 call[c].input_hash, profile.templates),
                               ![c].components = BuildComponentsFor(call[c].classified,
                                                   call[c].enhancements)]
  /\ UNCHANGED <<profile, profile_cache, profiles_dir>>

\* line 842; a final cleanup loop that does not end never returns
Format(c) ==
  /\ call[c].pc = "components_built"
  /\ LET formatted == safe_format_template(call[c].template, call[c].components)
     IN  call' = [call EXCEPT ![c].pc = IF formatted.halts THEN "formatted" ELSE "hung",
                              ![c].enhanced = formatted.result]
  /\ UNCHANGED <<profile, profile_cache, profiles_dir>>

\* the merge stage, were the unclassified tokens kept in a list that the calls
\* in progress share
Merge_shared(c) ==
  /\ call[c].pc = "formatted"
  /\ \E d \in Callers :
        /\ call[d].classified # <<>>
        /\ call' = [call EXCEPT ![c].pc = "merged",
                                ![c].enhanced = merge_with_unclassified(call[c].enhanced,
                                                  call[d].classified[Unclassified])]
  /\ UNCHANGED <<profile, profile_cache, profiles_dir>>

Merge(c) ==
  /\ call[c].pc = "formatted"
  /\ call' = [call EXCEPT ![c].pc = "merged",
                          ![c].enhanced = merge_with_unclassified(call[c].enhanced,
                                            call[c].classified[Unclassified])]
  /\ UNCHANGED <<profile, profile_cache, profiles_dir>>

Deduplicate(c) ==
  /\ call[c].pc = "merged"
  /\ call' = [call EXCEPT ![c].pc = "deduplicated",
                          ![c].enhanced = deduplicate_prompt(call[c].enhanced)]
  /\ UNCHANGED <<profile, profile_cache, profiles_dir>>

\* lines 851-853
EnforceLength(c) ==
  /\ call[c].pc = "deduplicated"
  /\ call' = [call EXCEPT ![c].pc = "returned",
                          ![c].ret = enforce_length_limit(call[c].enhanced,
                                                          call[c].max_words)]
  /\ UNCHANGED <<profile, profile_cache, profiles_dir>>

\* one stage of the call in progress
Stage(c) ==
  \/ ReturnEmpty(c)
  \/ Tokenize(c)
  \/ Classify(c)
  \/ FindGaps(c)
  \/ ApplyRules(c)
  \/ SelectGaps(c)
  \/ SelectEnhancements(c)
  \/ BuildComponents(c)
  \/ Format(c)
  \/ Merge(c)
  \/ Deduplicate(c)
  \/ EnforceLength(c)

\* one caller, calling again and again
Next == Call("c1", Prompts, Limits) \/ Stage("c1")

Spec == Init /\ [][Next]_vars

\* two callers, one call at a time (the engine is called from one thread): each
\* may call while the other holds the result of an earlier call
\* 'paint cat, 4k'
PromptPaint == <<"p", "a", "i", "n", "t", " ", "c", "a", "t", ",", " ", "4", "k">>

SeqPrompts == {PromptBlank, PromptPaint}

\* a call starts only when no other call is in progress
CallInTurn(c) ==
  /\ \A d \in Callers \ {c} : AtRest(d)
  /\ Call(c, SeqPrompts, {MAX_WORDS})

NextSeq == \E c \in Callers : CallInTurn(c) \/ Stage(c)

SpecSeq == Init /\ [][NextSeq]_vars

-----------------------------------------------------------------------------
(* Properties of enhance_prompt                                            *)

Returned(c) == call[c].pc = "returned"

SameArguments(c, d) ==
  /\ call[c].input_prompt = call[d].input_prompt
  /\ call[c].seed = call[d].seed
  /\ call[c].intensity = call[d].intensity
  /\ call[c].max_words = call[d].max_words

\* C1: determinism. Two calls with the same prompt, seed, profile, intensity and
\* max_words return the same string, whatever calls were made before or between
\* them and in whatever order the set of gaps was listed.
C1_Determinism ==
  \A c, d \in Callers :
     (Returned(c) /\ Returned(d) /\ SameArguments(c, d)) => call[c].ret = call[d].ret

\* two callers hold the results of the same enhancing call
C1_RepeatedCall ==
  /\ Returned("c1") /\ Returned("c2") /\ SameArguments("c1", "c2")
  /\ call["c1"].input_prompt = PromptPaint
  /\ call["c1"].intensity = "minimal"
  /\ Len(call["c1"].gaps) < Cardinality(GapSet(call["c1"].classified, profile.pools))
  /\ call["c1"].ret # PromptPaint
  /\ call["c2"].ret = call["c1"].ret

\* the tokens of the call that matched no classification rule
UnclassifiedTokens(c) ==
  IF call[c].classified = <<>> THEN <<>> ELSE call[c].classified[Unclassified]

\* C2: token preservation. Every input token that matches no classification rule
\* is a substring of the returned string.
C2_TokenPreservation ==
  \A c \in Callers :
     Returned(c) =>
        \A k \in 1..Len(UnclassifiedTokens(c)) :
           Contains(call[c].ret, UnclassifiedTokens(c)[k])

\* C3: anti-pair avoidance. A selected enhancement contains a forbidden term only
\* if every phrase of its category's pool contains one.
C3_AntiPairAvoidance ==
  \A c \in Callers :
     call[c].pc = "enhancements_selected" =>
        \A g \in DOMAIN call[c].enhancements :
           Conflicts(call[c].enhancements[g], call[c].forbidden) =>
              \A k \in 1..Len(profile.pools[g]) :
                 Conflicts(profile.pools[g][k], call[c].forbidden)

\* C4: word limit. The returned string splits on whitespace into at most
\* max_words words.
C4_WordLimit ==
  \A c \in Callers :
     Returned(c) => Len(Words(call[c].ret)) <= call[c].max_words

\* a call whose text was longer than the limit and was cut to it
C4_Truncated ==
  \E c \in Callers :
     /\ Returned(c)
     /\ Len(Words(call[c].enhanced)) > call[c].max_words
     /\ Len(Words(call[c].ret)) = call[c].max_words

\* the text is empty or made of whitespace only
OnlyWhitespace(s) == \A k \in 1..Len(s) : IsSpace(s[k])

\* C5: an empty or whitespace-only prompt is returned unchanged and no stage of
\* the pipeline runs on it.
C5_BlankUnchanged ==
  \A c \in Callers :
     (call[c].pc # "idle" /\ OnlyWhitespace(call[c].input_prompt)) =>
        /\ call[c].pc \in {"entered", "returned"}
        /\ call[c].tokens = <<>> /\ call[c].enhanced = <<>>
        /\ Returned(c) => call[c].ret = call[c].input_prompt

\* a whitespace-only prompt has been returned
C5_WhitespaceReturned ==
  \E c \in Callers :
     /\ Returned(c)
     /\ call[c].input_prompt = PromptBlank
     /\ call[c].ret = PromptBlank

\* the text starts with a comma, ends with one, or has two commas with nothing
\* but whitespace between them
LeadingComma(s) == SkipSpace(s, 1) <= Len(s) /\ s[SkipSpace(s, 1)] = ","

TrailingComma(s) ==
  SpaceStart(s, Len(s) + 1) > 1 /\ s[SpaceStart(s, Len(s) + 1) - 1] = ","

ConsecutiveCommas(s) ==
  \E i, j \in 1..Len(s) :
     /\ i < j /\ s[i] = "," /\ s[j] = ","
     /\ \A k \in (i + 1)..(j - 1) : IsSpace(s[k])

\* C6: no returned string has a leading comma, a trailing comma, or two
\* consecutive commas (with or without whitespace between them).
C6_NoCommaArtifacts ==
  \A c \in Callers :
     Returned(c) =>
        /\ ~LeadingComma(call[c].ret)
        /\ ~TrailingComma(call[c].ret)
        /\ ~ConsecutiveCommas(call[c].ret)

\* a call whose text was cut just after a word that ends with a comma
C6_CutAtComma ==
  \E c \in Callers :
     /\ Returned(c)
     /\ Len(Words(call[c].enhanced)) > call[c].max_words
     /\ EndsWith(Words(call[c].enhanced)[call[c].max_words], <<",">>)
     /\ call[c].ret # <<>>

\* validate_profile: templates and pools are not empty
ValidProfile == profile.templates # <<>> /\ DOMAIN profile.pools # {}

HasPlaceholder(s) ==
  \E i, j \in 1..Len(s) :
     /\ i + 1 < j /\ s[i] = "{" /\ s[j] = "}"
     /\ \A k \in (i + 1)..(j - 1) : s[k] \notin {"{", "}", ",", " "}

\* C8: a placeholder of the template whose name the engine does not fill is
\* removed: no returned string contains a literal {name}.
C8_NoPlaceholderLeft ==
  \A c \in Callers :
     (Returned(c) /\ ~HasPlaceholder(call[c].input_prompt)) =>
        ~HasPlaceholder(call[c].ret)

\* pools, with the categories whose pool is empty removed
WithoutEmptyPools(pools) ==
  [g \in {k \in DOMAIN pools : pools[k] # <<>>} |-> pools[g]]

\* the call returns what enhance_prompt returns for its arguments when the
\* profile's pools are `pools` (the stages that read the pools are run again,
\* each on the finished result of the one before)
ReturnsAsUnder(c, pools) ==
  \E listed \in Listings(GapSet(call[c].classified, pools)) :
  \E gaps \in {select_gaps_to_fill(call[c].seed, call[c].input_hash,
                 apply_category_rules(find_gaps(listed), profile.rules,
                                      call[c].intensity),
                 call[c].intensity)} :
  \E enhancements \in {SelectEnhancementsFor(call[c].seed, call[c].input_hash, gaps,
                                             pools, call[c].forbidden)} :
  \E formatted \in {safe_format_template(call[c].template,
                      BuildComponentsFor(call[c].classified, enhancements))} :
  \E deduplicated \in {deduplicate_prompt(merge_with_unclassified(
                         formatted.result, call[c].classified[Unclassified]))} :
     call[c].ret = enforce_length_limit(deduplicated, call[c].max_words)

\* C9: a category whose pool is empty is treated as if it were not a gap: nothing
\* is selected for it and the call returns what it returns when the category is
\* removed from pools.
C9_EmptyPoolAsNoGap ==
  \A c \in Callers :
     (Returned(c) /\ ~IsBlank(call[c].input_prompt)) =>
        /\ \A g \in DOMAIN call[c].enhancements : profile.pools[g] # <<>>
        /\ ReturnsAsUnder(c, WithoutEmptyPools(profile.pools))

\* no token of the call was classified into the category
AbsentFromPrompt(c, category) ==
  \A k \in 1..Len(call[c].tokens) :
     category \notin classify_token_multi(call[c].tokens[k], profile.classification)

\* C10: at intensity "full", when nothing is truncated, the returned string
\* contains a phrase of the pool of every mandatory or standard category that is
\* absent from the prompt and has a non-empty pool.
C10_FullFillsEveryGap ==
  \A c \in Callers :
     (/\ Returned(c)
      /\ ~IsBlank(call[c].input_prompt)
      /\ call[c].intensity = "full"
      /\ Len(Words(call[c].enhanced)) <= call[c].max_words) =>
        \A category \in profile.rules.mandatory \cup profile.rules.standard :
           (/\ category \in DOMAIN profile.pools
            /\ profile.pools[category] # <<>>
            /\ AbsentFromPrompt(c, category)) =>
              \E k \in 1..Len(profile.pools[category]) :
                 Contains(call[c].ret, profile.pools[category][k])

\* the tokens of the call that match the category's keywords or patterns, in
\* input order
UserTokens(c, category) ==
  LET In(t) == category \in classify_token_multi(t, profile.classification)
  IN  SelectSeq(call[c].tokens, In)

\* C11: a category for which the user supplied a token is never overridden: no
\* enhancement is selected for it, and the value of its placeholder is the
\* user's tokens of the category joined by ", ".
C11_UserCategoryKept ==
  \A c \in Callers :
     call[c].pc = "components_built" =>
        \A category \in DOMAIN profile.classification :
           UserTokens(c, category) # <<>> =>
              /\ category \notin DOMAIN call[c].enhancements
              /\ category \in DOMAIN call[c].components =>
                    call[c].components[category] =
                       Join(UserTokens(c, category), CommaSpace)

\* the segments of the text: its pieces between commas, stripped
CommaSegments(s) ==
  LET pieces == Split(s, ",")
  IN  [i \in 1..Len(pieces) |-> Strip(pieces[i])]

\* C12: the string returned for a prompt that is not blank, split on commas,
\* has no empty segment and no two identical segments, for every max_words.
C12_SegmentsDistinct ==
  \A c \in Callers :
     (Returned(c) /\ ~OnlyWhitespace(call[c].input_prompt)) =>
        LET segs == CommaSegments(call[c].ret)
        IN  /\ \A i \in 1..Len(segs) : segs[i] # <<>>
            /\ \A i, j \in 1..Len(segs) : segs[i] = segs[j] => i = j

-----------------------------------------------------------------------------
(* V1: enhance_prompt(input_prompt, seed, intensity, max_words), which reads *)
(* its own DEFAULT_PROFILE. Its helper functions are those of V2, line for   *)
(* line; its selection loop indexes the pool of every gap                     *)

\* the selection loop with coordinates counted from 0
V1_SelectEnhancementsFor_from_zero(seed, input_hash, gaps, pools, forbidden) ==
  [g \in Elems(gaps) |->
     select_with_antipair_check[seed, input_hash, CategoryCoord(g, gaps) - 1,
                                pools[g], forbidden]]

\* the enhancements dict after the selection loop of V1
V1_SelectEnhancementsFor(seed, input_hash, gaps, pools, forbidden) ==
  [g \in Elems(gaps) |->
     select_with_antipair_check[seed, input_hash, CategoryCoord(g, gaps),
                                pools[g], forbidden]]

V1_ReturnEmpty(c) ==
  /\ call[c].pc = "entered"
  /\ IsBlank(call[c].input_prompt)
  /\ call' = [call EXCEPT ![c].pc = "returned", ![c].ret = call[c].input_prompt]
  /\ UNCHANGED <<profile, profile_cache, profiles_dir>>

V1_Tokenize(c) ==
  /\ call[c].pc = "entered"
  /\ ~IsBlank(call[c].input_prompt)
  /\ call' = [call EXCEPT ![c].pc = "tokenized",
                          ![c].tokens = tokenize(call[c].input_prompt)]
  /\ UNCHANGED <<profile, profile_cache, profiles_dir>>

V1_Classify(c) ==
  /\ call[c].pc = "tokenized"
  /\ call' = [call EXCEPT ![c].pc = "classified",
                          ![c].classified =
                             classify_all_tokens(call[c].tokens,
                                                 V1_DEFAULT_PROFILE.classification)]
  /\ UNCHANGED <<profile, profile_cache, profiles_dir>>

V1_FindGaps(c) ==
  /\ call[c].pc = "classified"
  /\ \E listed \in Listings(GapSet(call[c].classified, V1_DEFAULT_PROFILE.pools)) :
        call' = [call EXCEPT ![c].pc = "gaps_found", ![c].gaps = find_gaps(listed)]
  /\ UNCHANGED <<profile, profile_cache, profiles_dir>>

V1_ApplyRules(c) ==
  /\ call[c].pc = "gaps_found"
  /\ call' = [call EXCEPT ![c].pc = "rules_applied",
                          ![c].gaps = apply_category_rules(call[c].gaps,
                                        V1_DEFAULT_PROFILE.rules, call[c].intensity)]
  /\ UNCHANGED <<profile, profile_cache, profiles_dir>>

V1_SelectGaps(c) ==
  /\ call[c].pc = "rules_applied"
  /\ LET input_hash == xxh32(Encode(call[c].input_prompt), W32(0))
     IN  call' = [call EXCEPT ![c].pc = "gaps_selected",
                              ![c].input_hash = input_hash,
                              ![c].gaps = select_gaps_to_fill(call[c].seed, input_hash,
                                            call[c].gaps, call[c].intensity)]
  /\ UNCHANGED <<profile, profile_cache, profiles_dir>>

\* lines 676-689; hash_to_index on an empty pool divides by zero
V1_SelectEnhancements(c) ==
  /\ call[c].pc = "gaps_selected"
  /\ LET forbidden == build_forbidden_set(ExistingTokens(call[c].classified),
                                          V1_DEFAULT_PROFILE.anti_pairs)
     IN  IF \E g \in Elems(call[c].gaps) : V1_DEFAULT_PROFILE.pools[g] = <<>>
         THEN call' = [call EXCEPT ![c].pc = "raised", ![c].forbidden = forbidden]
         ELSE call' = [call EXCEPT ![c].pc = "enhancements_selected",
                                   ![c].forbidden = forbidden,
                                   ![c].enhancements =
                                      V1_SelectEnhancementsFor(call[c].seed,
                                        call[c].input_hash, call[c].gaps,
                                        V1_DEFAULT_PROFILE.pools, forbidden)]
  /\ UNCHANGED <<profile, profile_cache, profiles_dir>>

V1_BuildComponents(c) ==
  /\ call[c].pc = "enhancements_selected"
  /\ IF V1_DEFAULT_PROFILE.templates = <<>>
     THEN call' = [call EXCEPT ![c].pc = "raised"]
     ELSE call' = [call EXCEPT ![c].pc = "components_built",
                               ![c].template = select_template(call[c].seed,
                                                 call[c].input_hash,
                                                 V1_DEFAULT_PROFILE.templates),
                               ![c].components = BuildComponentsFor(call[c].classified,
                                                   call[c].enhancements)]
  /\ UNCHANGED <<profile, profile_cache, profiles_dir>>

\* lines 707-718 of V1 are lines 842-853 of V2
V1_Finish(c) ==
  /\ call[c].pc \in {"components_built", "formatted", "merged", "deduplicated"}
  /\ (Format(c) \/ Merge(c) \/ Deduplicate(c) \/ EnforceLength(c))

V1_Stage(c) ==
  \/ V1_ReturnEmpty(c)
  \/ V1_Tokenize(c)
  \/ V1_Classify(c)
  \/ V1_FindGaps(c)
  \/ V1_ApplyRules(c)
  \/ V1_SelectGaps(c)
  \/ V1_SelectEnhancements(c)
  \/ V1_BuildComponents(c)
  \/ V1_Finish(c)

\* V2 with the built-in profile, then V1 with the same arguments
\* 'a knight'
PromptKnight == <<"a", " ", "k", "n", "i", "g", "h", "t">>
\* 'a diver swimming in an underwater cave, XYZ, watercolor style, wide shot'
PromptDiver == <<"a", " ", "d", "i", "v", "e", "r", " ", "s", "w", "i", "m", "m", "i", "n", "g", " ", "i", "n", " ", "a", "n", " ", "u", "n", "d", "e", "r", "w", "a", "t", "e", "r", " ", "c", "a", "v", "e", ",", " ", "X", "Y", "Z", ",", " ", "w", "a", "t", "e", "r", "c", "o", "l", "o", "r", " ", "s", "t", "y", "l", "e", ",", " ", "w", "i", "d", "e", " ", "s", "h", "o", "t">>
\* 'a knight, in a forest, oil painting, soft light, wide shot, XYZ'
PromptForest == <<"a", " ", "k", "n", "i", "g", "h", "t", ",", " ", "i", "n", " ", "a", " ", "f", "o", "r", "e", "s", "t", ",", " ", "o", "i", "l", " ", "p", "a", "i", "n", "t", "i", "n", "g", ",", " ", "s", "o", "f", "t", " ", "l", "i", "g", "h", "t", ",", " ", "w", "i", "d", "e", " ", "s", "h", "o", "t", ",", " ", "X", "Y", "Z">>

\* prompts that leave three gaps under the built-in profile
CompatPrompts == {PromptBlank, PromptDiver, PromptForest}

\* test_seed of the compatibility check of V2
TestSeed == 42

InitCompat ==
  /\ profile = DEFAULT_PROFILE
  /\ call = [c \in Callers |-> Idle]
  /\ EngineOnly

\* enhance_prompt(prompt, seed, DEFAULT_PROFILE, intensity, max_words), among
\* them the call of the compatibility check of V2
CallV2 ==
  /\ AtRest("c1") /\ AtRest("c2")
  /\ \/ \E p \in CompatPrompts, s \in Seeds, i \in Intensities, m \in Limits :
           call' = [call EXCEPT !["c1"] = Entered(p, s, i, m), !["c2"] = Idle]
     \/ call' = [call EXCEPT !["c1"] = Entered(PromptKnight, TestSeed, "moderate", MAX_WORDS),
                              !["c2"] = Idle]
  /\ UNCHANGED <<profile, profile_cache, profiles_dir>>

\* V1's enhance_prompt(test_input, test_seed, intensity, max_words)
CallV1 ==
  /\ call["c1"].pc \in {"returned", "raised", "hung"}
  /\ call["c2"].pc = "idle"
  /\ call' = [call EXCEPT !["c2"] = Entered(call["c1"].input_prompt, call["c1"].seed,
                                             call["c1"].intensity, call["c1"].max_words)]
  /\ UNCHANGED <<profile, profile_cache, profiles_dir>>

NextCompat == CallV2 \/ Stage("c1") \/ CallV1 \/ V1_Stage("c2")

SpecCompat == InitCompat /\ [][NextCompat]_vars

\* C13: V2 with DEFAULT_PROFILE ends as V1 ends for the same prompt, seed,
\* intensity and max_words: with the same string, or both with an error.
C13_V1Compatible ==
  (/\ call["c1"].pc \in {"returned", "raised", "hung"}
   /\ call["c2"].pc \in {"returned", "raised", "hung"}
   /\ profile = DEFAULT_PROFILE
   /\ SameArguments("c1", "c2")) =>
     /\ call["c2"].pc = call["c1"].pc
     /\ call["c2"].ret = call["c1"].ret

\* both versions have returned the enhancement of 'a knight' for seed 42
C13_BothEnhanced ==
  /\ Returned("c1") /\ Returned("c2")
  /\ call["c1"].input_prompt = PromptKnight /\ call["c2"].input_prompt = PromptKnight
  /\ call["c1"].seed = TestSeed /\ call["c2"].seed = TestSeed
  /\ call["c1"].intensity = "moderate" /\ call["c2"].intensity = "moderate"
  /\ call["c1"].max_words = MAX_WORDS /\ call["c2"].max_words = MAX_WORDS
  /\ call["c2"].ret = call["c1"].ret
  /\ Len(call["c2"].ret) > Len(PromptKnight)

-----------------------------------------------------------------------------
(* Calls in parallel: each caller may call while the other's call is in     *)
(* progress, and the stages of the two calls interleave in every order      *)

ConcPrompts == {PromptBlank, PromptPaint, PromptCave}

ConcSeeds == {0, MaxSeed}

ConcIntensities == {"minimal", "full"}

CallInParallel(c) == CallWith(c, ConcPrompts, ConcSeeds, ConcIntensities, {MAX_WORDS})

NextConc == \E c \in Callers : CallInParallel(c) \/ Stage(c)

SpecConc == Init /\ [][NextConc]_vars

\* the call has ended: with a string, with an error, or in a loop
Ended(c) == call[c].pc \in {"returned", "raised", "hung"}

\* C14: concurrent calls are independent. Under every interleaving of the
\* stages of two calls, a call ends as every other call with its arguments
\* ends, alone or not: with the same string, or each with an error.
C14_Independent ==
  \A c, d \in Callers :
     (Ended(c) /\ Ended(d) /\ SameArguments(c, d)) =>
        call[c].pc = call[d].pc /\ call[c].ret = call[d].ret

\* two calls with different prompts are in progress, each one stage from its
\* return
C14_BothInProgress ==
  /\ call["c1"].pc = "deduplicated" /\ call["c2"].pc = "deduplicated"
  /\ call["c1"].input_prompt = PromptCave /\ call["c2"].input_prompt = PromptPaint
  /\ call["c1"].enhanced # <<>> /\ call["c2"].enhanced # <<>>

-----------------------------------------------------------------------------
(* The hash coordinates of one call                                        *)

\* the number of passes of the while loop of select_with_antipair_check, from
\* `attempts` on: each pass hashes at conflict_coord + attempts
FallbackAttempts[seed \in Nat, input_hash \in Word32, conflict_coord \in Nat, pool \in Seq(Str), forbidden \in SUBSET Str, attempts \in Nat] ==
  IF attempts >= Min(Len(pool), 50) THEN attempts
  ELSE LET h2  == enhancement_hash(seed, input_hash, conflict_coord + attempts)
           alt == pool[hash_to_index(h2, Len(pool)) + 1]
       IN  IF ~Conflicts(alt, forbidden) THEN attempts + 1
           ELSE FallbackAttempts[seed, input_hash, conflict_coord, pool, forbidden,
                                 attempts + 1]

\* the coordinates select_with_antipair_check hashes at for one gap: the primary
\* pick at category_idx, then the fallback attempts if the primary pick conflicts
PickCoordinates(seed, input_hash, category_idx, pool, forbidden) ==
  LET h         == enhancement_hash(seed, input_hash, category_idx)
      selection == pool[hash_to_index(h, Len(pool)) + 1]
      passes    == IF Conflicts(selection, forbidden)
                   THEN FallbackAttempts[seed, input_hash, category_idx + 1000, pool,
                                         forbidden, 0]
                   ELSE 0
  IN  {[decision |-> <<"primary", category_idx, 0>>, coord |-> category_idx]}
      \cup {[decision |-> <<"fallback", category_idx, attempts>>,
             coord    |-> category_idx + 1000 + attempts] : attempts \in 0..(passes - 1)}

\* the coordinates select_gaps_to_fill hashes at: none when every gap is kept
ScoreCoordinates(gaps, intensity) ==
  LET rate        == INTENSITY_RATES[intensity]
      num_to_fill == Max(1, (Len(gaps) * rate) \div 100)
  IN  IF rate >= 100 \/ num_to_fill >= Len(gaps) THEN {}
      ELSE {[decision |-> <<"score", i - 1, 0>>, coord |-> 2000 + (i - 1)] :
              i \in 1..Len(gaps)}

\* the gaps of the call as select_gaps_to_fill receives them
RuledGaps(c) ==
  LET listed == CHOOSE l \in Listings(GapSet(call[c].classified, profile.pools)) : TRUE
  IN  apply_category_rules(find_gaps(listed), profile.rules, call[c].intensity)

\* every decision of a call that has selected its template, with the coordinate
\* it was hashed at
Decisions(c) ==
  {[decision |-> <<"template", 0, 0>>, coord |-> 0]}
  \cup ScoreCoordinates(RuledGaps(c), call[c].intensity)
  \cup UNION {PickCoordinates(call[c].seed, call[c].input_hash,
                              CategoryCoord(g, call[c].gaps), profile.pools[g],
                              call[c].forbidden) :
                g \in GapsToSelect(call[c].gaps, profile.pools)}

\* 'a diver swimming in an underwater cave, xx, watercolor style, wide shot'
PromptDiverXX == <<"a", " ", "d", "i", "v", "e", "r", " ", "s", "w", "i", "m", "m", "i", "n", "g", " ", "i", "n", " ", "a", "n", " ", "u", "n", "d", "e", "r", "w", "a", "t", "e", "r", " ", "c", "a", "v", "e", ",", " ", "x", "x", ",", " ", "w", "a", "t", "e", "r", "c", "o", "l", "o", "r", " ", "s", "t", "y", "l", "e", ",", " ", "w", "i", "d", "e", " ", "s", "h", "o", "t">>

CoordPrompts == {PromptBlank, PromptDiverXX}

\* one caller, the built-in profile
NextCoord ==
  \/ CallWith("c1", CoordPrompts, Seeds, Intensities, {MAX_WORDS})
  \/ Stage("c1")

SpecCoord == InitCompat /\ [][NextCoord]_vars

\* C15: coordinate partitioning. Within one call no two different decisions (the
\* template, the primary pick of a gap, a fallback attempt of a gap, the score of
\* a gap) are hashed at the same coordinate.
C15_CoordinatesPartitioned ==
  \A c \in Callers :
     call[c].pc = "components_built" =>
        \A x, y \in Decisions(c) : x.coord = y.coord => x.decision = y.decision

\* C16: the classifier drops no token. In the classification result every token
\* of the call is recorded under every category it matches, under "unclassified"
\* exactly when it matches no category, and so in at least one bucket.
C16_NoTokenDropped ==
  \A c \in Callers :
     call[c].pc = "classified" =>
        \A k \in 1..Len(call[c].tokens) :
           LET token   == call[c].tokens[k]
               matches == {category \in DOMAIN profile.classification :
                             RulesMatch(profile.classification[category], Lower(token))}
               Holds(bucket) == /\ bucket \in DOMAIN call[c].classified
                                /\ token \in Elems(call[c].classified[bucket])
           IN  /\ \A category \in matches : Holds(category)
               /\ Holds(Unclassified) <=> matches = {}
               /\ \E bucket \in DOMAIN call[c].classified : Holds(bucket)

\* C17: a mandatory gap is always filled. A category of the mandatory rules that
\* is a gap of the call has an enhancement selected for it, at every intensity
\* and seed.
C17_MandatoryFilled ==
  \A c \in Callers :
     call[c].pc = "enhancements_selected" =>
        \A g \in profile.rules.mandatory \cap GapSet(call[c].classified, profile.pools) :
           g \in DOMAIN call[c].enhancements

-----------------------------------------------------------------------------
(* The stem of one segment: the body of the loop of deduplicate_prompt     *)

\* segments of a prompt: words and phrases, bare and with one or two endings
\*   "", "a", "be", "run", "runn", "Glow", "paint", "soft light"
SegmentBases ==
  {<<>>, <<"a">>, <<"b", "e">>, <<"r", "u", "n">>, <<"r", "u", "n", "n">>,
   <<"G", "l", "o", "w">>, <<"p", "a", "i", "n", "t">>,
   <<"s", "o", "f", "t", " ", "l", "i", "g", "h", "t">>}

\*   "", "ing", "ed", "ly", "s", "ING"
SegmentEndings == Elems(Suffixes) \cup {<<>>, <<"I", "N", "G">>}

StemSegments ==
  {base \o e1 \o e2 : base \in SegmentBases, e1 \in SegmentEndings,
                      e2 \in SegmentEndings} \ {<<>>}

\* the loop of deduplicate_prompt reaches a segment of the prompt
TakeSegment(c) ==
  /\ AtRest(c)
  /\ \E token \in StemSegments :
        call' = [call EXCEPT ![c] = [Idle EXCEPT !.pc = "segment", !.enhanced = token]]
  /\ UNCHANGED <<profile, profile_cache, profiles_dir>>

\* lines 703-710: the stem of the segment
StemSegment(c) ==
  /\ call[c].pc = "segment"
  /\ call' = [call EXCEPT ![c].pc = "stemmed", ![c].ret = Stem(call[c].enhanced)]
  /\ UNCHANGED <<profile, profile_cache, profiles_dir>>

NextStem == TakeSegment("c1") \/ StemSegment("c1")

SpecStem == Init /\ [][NextStem]_vars

\* the suffixes of the list that the string ends with, by position in the list
EndingsOf(s) == {k \in 1..Len(Suffixes) : EndsWith(s, Suffixes[k])}

\* the first suffix of the list that the string ends with
FirstEnding(s) == Suffixes[CHOOSE k \in EndingsOf(s) : \A j \in EndingsOf(s) : k <= j]

\* the string without its last n characters
WithoutLast(s, n) == SubSeq(s, 1, Len(s) - n)

\* C18: the dedup stem. The stem of a segment is its lower-cased text without
\* the first suffix of "ing", "ed", "ly", "s" that it ends with, the suffix being
\* stripped only if the lower-cased segment is more than 2 characters longer than
\* the suffix (the remaining stem is longer than 2 characters); otherwise, and
\* when it ends with no suffix of the list, the stem is the lower-cased text. At
\* most one suffix is stripped.
C18_StemRule ==
  \A c \in Callers :
     call[c].pc = "stemmed" =>
        LET lower == Lower(call[c].enhanced)
        IN  call[c].ret =
              IF EndingsOf(lower) # {} /\ Len(lower) > Len(FirstEnding(lower)) + 2
              THEN WithoutLast(lower, Len(FirstEnding(lower)))
              ELSE lower

\* C18 as stated: the suffix is stripped only if the stem that remains after
\* stripping is more than 2 characters longer than the suffix.
C18_StemRuleAsStated ==
  \A c \in Callers :
     call[c].pc = "stemmed" =>
        LET lower == Lower(call[c].enhanced)
        IN  call[c].ret =
              IF /\ EndingsOf(lower) # {}
                 /\ Len(lower) - Len(FirstEnding(lower)) > Len(FirstEnding(lower)) + 2
              THEN WithoutLast(lower, Len(FirstEnding(lower)))
              ELSE lower

\* 'running' was stemmed to 'runn': the stem that remains is no more than 2
\* characters longer than the suffix
C18_ShortStemStripped ==
  /\ call["c1"].pc = "stemmed"
  /\ call["c1"].enhanced = <<"r", "u", "n", "n", "i", "n", "g">>
  /\ call["c1"].ret = <<"r", "u", "n", "n">>

\* C19: classified user tokens are kept. When the length limit truncates nothing,
\* every token of the prompt that matches at least one category is a substring
\* of the returned string, whichever template was selected.
C19_ClassifiedTokensKept ==
  \A c \in Callers :
     (/\ Returned(c)
      /\ call[c].tokens # <<>>
      /\ Len(Words(call[c].enhanced)) <= call[c].max_words) =>
        \A k \in 1..Len(call[c].tokens) :
           (\E category \in DOMAIN profile.classification :
               RulesMatch(profile.classification[category], Lower(call[c].tokens[k]))) =>
              Contains(call[c].ret, call[c].tokens[k])

-----------------------------------------------------------------------------
(* The policy filter under rules that leave pools unlisted                 *)

\* CompactProfile with the pools lighting and camera in none of the rule lists
UnlistedProfile ==
  [CompactProfile EXCEPT !.rules = [mandatory |-> {Details},
                                    standard  |-> {Style},
                                    optional  |-> {Mood}]]

RuleProfiles == {CompactProfile, UnlistedProfile}

RulePrompts == {PromptBlank, PromptCat, PromptNoir}

InitRules ==
  /\ profile \in RuleProfiles
  /\ call = [c \in Callers |-> Idle]
  /\ EngineOnly

NextRules == Call("c1", RulePrompts, {MAX_WORDS}) \/ Stage("c1")

SpecRules == InitRules /\ [][NextRules]_vars

\* the gaps the policy keeps at the intensity
KeptByPolicy(gaps, rules, intensity) ==
  {g \in gaps : \/ g \in rules.mandatory \cup rules.standard
                \/ g \in rules.optional /\ intensity \in {"moderate", "full"}}

\* C20: the policy filter. The gaps after apply_category_rules are exactly the
\* gaps in mandatory or standard, plus those in optional when the intensity is
\* moderate or full, each once and in sorted order; a gap in none of the three
\* lists is dropped at every intensity.
C20_PolicyFilter ==
  \A c \in Callers :
     call[c].pc = "rules_applied" =>
        LET all   == GapSet(call[c].classified, profile.pools)
            gaps  == call[c].gaps
            rules == profile.rules
        IN  /\ Elems(gaps) = KeptByPolicy(all, rules, call[c].intensity)
            /\ \A i, j \in 1..Len(gaps) : i < j => LessStr(gaps[i], gaps[j])
            /\ \A g \in all \ (rules.mandatory \cup rules.standard \cup rules.optional) :
                  g \notin Elems(gaps)

\* 'a cat' at intensity light under UnlistedProfile: the optional gap and the
\* two unlisted gaps are dropped, the mandatory and the standard gap are kept
C20_UnlistedDropped ==
  /\ call["c1"].pc = "rules_applied"
  /\ profile = UnlistedProfile
  /\ call["c1"].intensity = "light"
  /\ GapSet(call["c1"].classified, profile.pools) = {Style, Lighting, Camera, Details, Mood}
  /\ call["c1"].gaps = <<Details, Style>>

\* the position of a gap in the list select_gaps_to_fill receives
PositionIn(gaps, g) == CHOOSE i \in 1..Len(gaps) : gaps[i] = g

\* the gap at position i ranks before the gap at position j: lower score, or the
\* same score and earlier in the list
RanksBefore(c, i, j) ==
  LET score(k) == enhancement_hash(call[c].seed, call[c].input_hash, 2000 + (k - 1))
  IN  Less32(score(i), score(j)) \/ (score(i) = score(j) /\ i < j)

\* C21: intensity thinning. At rate 1.0, or when n = max(1, floor(len * rate))
\* is at least the number of gaps, the gaps are returned as they are (none when
\* there are none); otherwise exactly the n gaps of lowest score
\* hash(seed, fingerprint, 2000 + i), i the 0-based position, in ascending order
\* of score.
C21_IntensityThinning ==
  \A c \in Callers :
     call[c].pc = "gaps_selected" =>
        LET input  == RuledGaps(c)
            result == call[c].gaps
            rate   == INTENSITY_RATES[call[c].intensity]
            floor  == (Len(input) * rate) \div 100
            n      == IF floor >= 1 THEN floor ELSE 1
            pos(k) == PositionIn(input, result[k])
        IN  /\ INTENSITY_RATES = [minimal |-> 25, light |-> 50, moderate |-> 75, full |-> 100]
            /\ IF rate = 100 \/ n >= Len(input)
               THEN result = input
               ELSE /\ Len(result) = n
                    /\ \A k \in 1..n : result[k] \in Elems(input)
                    /\ \A k \in 1..(n - 1) : RanksBefore(c, pos(k), pos(k + 1))
                    /\ \A i \in 1..Len(input) :
                          input[i] \notin Elems(result) => RanksBefore(c, pos(n), i)

\* a call whose gaps were thinned, and not to the first gaps of the list
C21_ThinnedByScore ==
  /\ call["c1"].pc = "gaps_selected"
  /\ call["c1"].intensity = "light"
  /\ Len(RuledGaps("c1")) = 4
  /\ Len(call["c1"].gaps) = 2
  /\ call["c1"].gaps # SubSeq(RuledGaps("c1"), 1, 2)

\* the phrase of the pool that the hash at the coordinate indexes
PickAt(c, pool, coord) ==
  pool[hash_to_index(enhancement_hash(call[c].seed, call[c].input_hash, coord), Len(pool)) + 1]

\* the fallback attempts of the gap at coordinate i whose alternate is free of
\* forbidden terms
FreeAttempts(c, pool, i) ==
  {attempt \in 0..(Min(Len(pool), 50) - 1) :
     ~Conflicts(PickAt(c, pool, 1000 + i + attempt), call[c].forbidden)}

\* C22: select_with_antipair_check. The enhancement of a gap with coordinate i is
\* the primary pick pool[hash(seed, fp, i) mod len(pool)] when that contains no
\* forbidden term; otherwise the alternate at the lowest attempt in
\* 0..min(len(pool), 50) - 1 (coordinate 1000 + i + attempt) that contains none;
\* and the primary pick when every attempt conflicts. It is a non-empty member of
\* the pool.
C22_AntiPairSelection ==
  \A c \in Callers :
     call[c].pc = "enhancements_selected" =>
        \A g \in DOMAIN call[c].enhancements :
           LET pool    == profile.pools[g]
               i       == CategoryCoord(g, call[c].gaps)
               primary == PickAt(c, pool, i)
               free    == FreeAttempts(c, pool, i)
               lowest  == CHOOSE a \in free : \A b \in free : a <= b
               result  == call[c].enhancements[g]
           IN  /\ result = IF ~Conflicts(primary, call[c].forbidden) THEN primary
                           ELSE IF free # {} THEN PickAt(c, pool, 1000 + i + lowest)
                           ELSE primary
               /\ result \in Elems(pool)
               /\ result # <<>>

\* a gap whose primary pick conflicted and whose enhancement is the alternate of
\* a later attempt than the first
C22_LaterAttemptTaken ==
  \E g \in DOMAIN call["c1"].enhancements :
     LET pool == profile.pools[g]
         i    == CategoryCoord(g, call["c1"].gaps)
         free == FreeAttempts("c1", pool, i)
     IN  /\ call["c1"].pc = "enhancements_selected"
         /\ Conflicts(PickAt("c1", pool, i), call["c1"].forbidden)
         /\ free # {}
         /\ 0 \notin free
         /\ ~Conflicts(call["c1"].enhancements[g], call["c1"].forbidden)

\* one caller, the built-in profile or the compact one
InitPick ==
  /\ profile \in {DEFAULT_PROFILE, CompactProfile}
  /\ call = [c \in Callers |-> Idle]
  /\ EngineOnly

SpecPick == InitPick /\ [][NextCoord]_vars

\* a gap whose primary pick and every fallback attempt conflicted: the primary
\* pick was returned
C22_AttemptsExhausted ==
  \E g \in DOMAIN call["c1"].enhancements :
     LET pool == profile.pools[g]
         i    == CategoryCoord(g, call["c1"].gaps)
     IN  /\ call["c1"].pc = "enhancements_selected"
         /\ Conflicts(PickAt("c1", pool, i), call["c1"].forbidden)
         /\ FreeAttempts("c1", pool, i) = {}
         /\ call["c1"].enhancements[g] = PickAt("c1", pool, i)

-----------------------------------------------------------------------------
(* deduplicate_prompt on the text it is given                              *)

\* segments of a merged text: words and phrases that share stems and words
\*   ''
\*   'cat'
\*   'cats'
\*   'Cat'
\*   'big cat'
\*   'big'
\*   'glowing'
\*   'paintings'
\*   'red big cat'
\*   'red big dog'
\*   'soft red big cat'
\*   'soft red big dog'
DedupSegments ==
  {<<>>,
   <<"c", "a", "t">>,
   <<"c", "a", "t", "s">>,
   <<"C", "a", "t">>,
   <<"b", "i", "g", " ", "c", "a", "t">>,
   <<"b", "i", "g">>,
   <<"g", "l", "o", "w", "i", "n", "g">>,
   <<"p", "a", "i", "n", "t", "i", "n", "g", "s">>,
   <<"r", "e", "d", " ", "b", "i", "g", " ", "c", "a", "t">>,
   <<"r", "e", "d", " ", "b", "i", "g", " ", "d", "o", "g">>,
   <<"s", "o", "f", "t", " ", "r", "e", "d", " ", "b", "i", "g", " ", "c", "a", "t">>,
   <<"s", "o", "f", "t", " ", "r", "e", "d", " ", "b", "i", "g", " ", "d", "o", "g">>}

\* the longest merged text of the model, in segments
MaxSegments == 3

\* the merged texts: up to MaxSegments segments joined by ', '
DedupTexts ==
  {Join(segments, CommaSpace) :
     segments \in UNION {[1..n -> DedupSegments] : n \in 1..MaxSegments}}

\* line 845: a call reaches the deduplication with a merged text (kept in
\* input_prompt for reference)
TakeMerged(c) ==
  /\ AtRest(c)
  /\ \E text \in DedupTexts :
        call' = [call EXCEPT ![c] = [Idle EXCEPT !.pc = "merged",
                                                 !.input_prompt = text,
                                                 !.enhanced = text]]
  /\ UNCHANGED <<profile, profile_cache, profiles_dir>>

\* deduplicate_prompt applied to its own result
DeduplicateAgain(c) ==
  /\ call[c].pc = "deduplicated"
  /\ call' = [call EXCEPT ![c].pc = "deduplicated_again",
                          ![c].ret = deduplicate_prompt(call[c].enhanced)]
  /\ UNCHANGED <<profile, profile_cache, profiles_dir>>

NextDedup == TakeMerged("c1") \/ Deduplicate("c1") \/ DeduplicateAgain("c1")

SpecDedup == InitCompat /\ [][NextDedup]_vars

\* which segments are dropped: a segment is dropped exactly when its stem is the
\* stem of an earlier segment, or the words of its stem overlap by at least 70%
\* of the smaller set with the words of the stem of an earlier segment that was
\* kept
DroppedOf(segs) ==
  CHOOSE dropped \in [1..Len(segs) -> BOOLEAN] :
     \A k \in 1..Len(segs) :
        dropped[k] <=>
           \/ \E j \in 1..(k - 1) : Stem(segs[j]) = Stem(segs[k])
           \/ \E j \in 1..(k - 1) :
                 /\ ~dropped[j]
                 /\ Overlaps(WordSet(Stem(segs[k])), WordSet(Stem(segs[j])))

C29_DedupIdempotent ==
  \A c \in Callers :
     call[c].pc = "deduplicated_again" => call[c].ret = call[c].enhanced

\* the deduplication was applied again to a text it had shortened
C29_AppliedTwice ==
  /\ call["c1"].pc = "deduplicated_again"
  /\ call["c1"].input_prompt = <<"p", "a", "i", "n", "t", "i", "n", "g", "s", ",", " ", "C", "a", "t", ",", " ", "c", "a", "t", "s">>
  /\ call["c1"].enhanced = <<"p", "a", "i", "n", "t", "i", "n", "g", "s", ",", " ", "C", "a", "t">>
  /\ call["c1"].ret = call["c1"].enhanced

-----------------------------------------------------------------------------
(* tokenize on short prompts of letters, blanks, commas, hyphens and bars  *)

TokChars == {"a", " ", ",", "-", "|"}

\* the longest prompt given to the tokenizer
MaxPromptLen == 5

TokPrompts == UNION {[1..n -> TokChars] : n \in 1..MaxPromptLen}

NextTok ==
  \/ CallWith("c1", TokPrompts, {0}, {"full"}, {MAX_WORDS})
  \/ ReturnEmpty("c1")
  \/ Tokenize("c1")

SpecTok == InitCompat /\ [][NextTok]_vars

\* a hyphen or a bar at index i of s with whitespace on both sides
IsSeparatorAt(s, i) ==
  /\ s[i] \in {"-", "|"}
  /\ i > 1 /\ IsSpace(s[i - 1])
  /\ i < Len(s) /\ IsSpace(s[i + 1])

\* the text s[from..to] lies between tokens: whitespace, commas, and hyphens or
\* bars with whitespace on both sides
IsGap(s, from, to) ==
  \A i \in from..to : IsSpace(s[i]) \/ s[i] = "," \/ IsSeparatorAt(s, i)

\* the tokens lie in s at the positions pos, in order and apart
LieAt(s, tokens, pos) ==
  LET n       == Len(tokens)
      end(k)  == pos[k] + Len(tokens[k]) - 1
  IN  /\ \A k \in 1..n : StartsWithAt(s, pos[k], tokens[k])
      /\ \A k \in 1..(n - 1) :
            /\ end(k) < pos[k + 1] - 1
            /\ IsGap(s, end(k) + 1, pos[k + 1] - 1)
            /\ \E i \in (end(k) + 1)..(pos[k + 1] - 1) : s[i] = "," \/ IsSeparatorAt(s, i)
      /\ IF n = 0 THEN IsGap(s, 1, Len(s))
         ELSE IsGap(s, 1, pos[1] - 1) /\ IsGap(s, end(n) + 1, Len(s))

\* C25: tokenize. The tokens are the pieces of the prompt, in input order, that
\* lie between commas and separators (a hyphen or bar with whitespace on both
\* sides): each is non-empty, without leading or trailing whitespace and without
\* a comma, holds no separator, and a hyphen or bar without whitespace on both
\* sides is part of a token.
C25_Tokenize ==
  \A c \in Callers :
     call[c].pc = "tokenized" =>
        LET s      == call[c].input_prompt
            tokens == call[c].tokens
        IN  /\ \A k \in 1..Len(tokens) :
                  LET t == tokens[k]
                  IN  /\ t # <<>>
                      /\ ~IsSpace(t[1]) /\ ~IsSpace(t[Len(t)])
                      /\ \A i \in 1..Len(t) : t[i] # "," /\ ~IsSeparatorAt(t, i)
            /\ \E pos \in [1..Len(tokens) -> 1..Len(s)] : LieAt(s, tokens, pos)

\* 'a-a |' is one token; 'a - a' is two
C25_HyphenInsideWord ==
  /\ call["c1"].pc = "tokenized"
  /\ call["c1"].input_prompt = <<"a", "-", "a", " ", "|">>
  /\ call["c1"].tokens = <<call["c1"].input_prompt>>

\* the order of the intensity tiers
IntensityRank == [minimal |-> 1, light |-> 2, moderate |-> 3, full |-> 4]

\* the call is past the selection of enhancements (or returned its blank prompt)
SelectionDone(c) ==
  call[c].pc \in {"enhancements_selected", "components_built", "formatted", "merged",
                  "deduplicated", "returned"}

\* C28: the number of enhanced categories grows with the intensity. Under a
\* profile whose pools are all non-empty, of two calls with the same prompt and
\* seed the one at the higher intensity has at least as many categories with an
\* enhancement.
C28_IntensityMonotone ==
  \A c, d \in Callers :
     (/\ \A g \in DOMAIN profile.pools : profile.pools[g] # <<>>
      /\ SelectionDone(c) /\ SelectionDone(d)
      /\ call[c].input_prompt = call[d].input_prompt
      /\ call[c].seed = call[d].seed
      /\ IntensityRank[call[c].intensity] <= IntensityRank[call[d].intensity]) =>
        Cardinality(DOMAIN call[c].enhancements) <= Cardinality(DOMAIN call[d].enhancements)

\* the same prompt and seed at light and at full intensity, with fewer
\* categories enhanced at light
C28_MoreAtFull ==
  /\ SelectionDone("c1") /\ SelectionDone("c2")
  /\ call["c1"].input_prompt = PromptPaint /\ call["c2"].input_prompt = PromptPaint
  /\ call["c1"].seed = call["c2"].seed
  /\ call["c1"].intensity = "light" /\ call["c2"].intensity = "full"
  /\ Cardinality(DOMAIN call["c1"].enhancements) = 1
  /\ Cardinality(DOMAIN call["c2"].enhancements) = 3

-----------------------------------------------------------------------------
(* The node DJZZeroENHV2: enhance, the class-level profile cache and the   *)
(* files of the profiles directory                                         *)

ProfileNames == {"default.json", "base.json"}

\* a profile file that extends base.json and brings one pool of its own
\*   pool mood: "dim"
ChildProfile ==
  [extends |-> "base.json",
   pools   |-> (Mood :> <<<<"d", "i", "m">>>>)]

\* a file that is not JSON
NotJson == [kind |-> "text"]

\* a file that holds a JSON number
JsonNumber == [kind |-> "number"]

\* a file that holds a JSON object
JsonObject(value) == [kind |-> "object", value |-> value]

\* what the user may store under each file name
FileContents ==
  [n \in ProfileNames |->
     IF n = "base.json" THEN {JsonObject(CompactProfile)}
     ELSE {NotJson, JsonNumber, JsonObject(CompactProfile), JsonObject(BrokenProfile),
           JsonObject(ChildProfile)}]

\* dict.get
Get(d, key, default) == IF key \in DOMAIN d THEN d[key] ELSE default

\* {**base, **child}
Updated(base, child) ==
  [k \in DOMAIN base \cup DOMAIN child |-> IF k \in DOMAIN child THEN child[k] ELSE base[k]]

\* merge_profiles, without the metadata fields name, description, version and
\* type, which enhance_prompt does not read
merge_profiles(base, child) ==
  LET child_templates == "templates" \in DOMAIN child /\ child.templates # <<>>
      keys == DOMAIN base \cup {"pools", "classification", "anti_pairs"}
                \cup (IF child_templates THEN {"templates"} ELSE {})
                \cup (IF "rules" \in DOMAIN child THEN {"rules"} ELSE {})
  IN  [k \in keys |->
         CASE k = "templates" -> IF child_templates THEN child.templates ELSE base.templates
           [] k = "pools" -> Updated(Get(base, "pools", <<>>), Get(child, "pools", <<>>))
           [] k = "classification" ->
                Updated(Get(base, "classification", <<>>), Get(child, "classification", <<>>))
           [] k = "rules" -> IF "rules" \in DOMAIN child THEN child.rules ELSE base.rules
           [] k = "anti_pairs" ->
                Updated(Get(base, "anti_pairs", <<>>), Get(child, "anti_pairs", <<>>))
           [] OTHER -> base[k]]

\* validate_profile does not raise
validate_profile(p) ==
  /\ "templates" \in DOMAIN p /\ p.templates # <<>>
  /\ "pools" \in DOMAIN p /\ DOMAIN p.pools # {}

Raises(exception) == [raised |-> exception]

\* load_profile: the profile it returns, or the exception it raises
load_profile(profile_name) ==
  IF profile_name \notin DOMAIN profiles_dir THEN Raises("FileNotFoundError")
  ELSE LET file == profiles_dir[profile_name] IN
    IF file.kind = "text" THEN Raises("JSONDecodeError")
    ELSE IF file.kind = "number" THEN Raises("TypeError")
    ELSE IF "extends" \notin DOMAIN file.value
      THEN IF validate_profile(file.value)
             THEN [raised |-> "", profile |-> file.value]
             ELSE Raises("ValueError")
    ELSE IF file.value.extends \notin DOMAIN profiles_dir THEN Raises("FileNotFoundError")
    ELSE LET base == profiles_dir[file.value.extends] IN
      IF base.kind = "text" THEN Raises("JSONDecodeError")
      ELSE IF base.kind = "number" THEN Raises("TypeError")
      ELSE LET merged == merge_profiles(base.value, file.value) IN
        IF validate_profile(merged)
          THEN [raised |-> "", profile |-> merged]
          ELSE Raises("ValueError")

\* the exceptions enhance catches around load_profile
Caught_not_found_only(exception) == exception = "FileNotFoundError"

Caught(exception) == exception \in {"FileNotFoundError", "ValueError", "JSONDecodeError"}

\* profile in self._profile_cache
Cached_unless_default(profile_name) ==
  profile_name \in DOMAIN profile_cache /\ profile_cache[profile_name] # DEFAULT_PROFILE

Cached(profile_name) == profile_name \in DOMAIN profile_cache

NodePrompts == {PromptBlank, PromptDiver}

\* '', 'z'
Affixes == {<<>>, <<"z">>}

\* (prefix, suffix)
AffixPairs == {<<a, b>> \in Affixes \X Affixes : a # b}

\* the node is not inside enhance
NodeAtRest(c) == call[c].pc \in {"idle", "node_returned", "raised", "hung"}

\* a node calls enhance(prompt, profile, seed, intensity, max_words, prefix,
\* suffix) and reaches the call of enhance_prompt, or leaves with the exception
\* of load_profile that is not caught. The field load records what the call did
\* about loading: "not called", "loaded", or the exception load_profile raised.
\* The nodes run one at a time, and the result of an earlier run has been handed
\* on when the next one starts.
enhance(c) ==
  /\ \A d \in Callers : NodeAtRest(d)
  /\ \E name \in ProfileNames, p \in NodePrompts, affixes \in AffixPairs :
       LET result == load_profile(name)
           propagates == ~Cached(name) /\ result.raised # "" /\ ~Caught(result.raised)
           cache == IF Cached(name) \/ propagates THEN profile_cache
                    ELSE Updated(profile_cache,
                                 [n \in {name} |-> IF result.raised = "" THEN result.profile
                                                   ELSE DEFAULT_PROFILE])
           args == [profile_name |-> name, prefix |-> affixes[1], suffix |-> affixes[2],
                    load |-> IF Cached(name) THEN "not called"
                             ELSE IF result.raised = "" THEN "loaded" ELSE result.raised]
           entered == Entered(p, TestSeed, "full", MAX_WORDS) @@ args
       IN  /\ profile_cache' = cache
           /\ IF propagates
                THEN /\ call' = [d \in Callers |->
                                     IF d = c THEN [entered EXCEPT !.pc = "raised"] ELSE Idle]
                     /\ UNCHANGED profile
                ELSE /\ call' = [d \in Callers |-> IF d = c THEN entered ELSE Idle]
                     /\ profile' = cache[name]
  /\ UNCHANGED profiles_dir

\* lines 951-957: the prefix and the suffix, and the return
Return(c) ==
  /\ call[c].pc = "returned"
  /\ LET enhanced == call[c].ret
         prefixed == IF call[c].prefix # <<>> THEN call[c].prefix \o <<" ">> \o enhanced
                     ELSE enhanced
         suffixed == IF call[c].suffix # <<>> THEN prefixed \o <<" ">> \o call[c].suffix
                     ELSE prefixed
     IN  call' = [call EXCEPT ![c].pc = "node_returned", ![c].ret = suffixed]
  /\ UNCHANGED <<profile, profile_cache, profiles_dir>>

\* between two runs of a node the user writes, replaces or removes a profile file
EditProfiles ==
  /\ \A d \in Callers : NodeAtRest(d)
  /\ \E name \in ProfileNames :
       \/ \E file \in FileContents[name] :
            profiles_dir' = Updated(profiles_dir, [n \in {name} |-> file])
       \/ /\ name \in DOMAIN profiles_dir
          /\ profiles_dir' = [n \in DOMAIN profiles_dir \ {name} |-> profiles_dir[n]]
  /\ UNCHANGED <<profile, call, profile_cache>>

\* a fresh installation: nothing cached, no profile file
InitNode ==
  /\ profile = DEFAULT_PROFILE
  /\ call = [c \in Callers |-> Idle]
  /\ EngineOnly

NextNode == (\E c \in Callers : enhance(c) \/ Stage(c) \/ Return(c)) \/ EditProfiles

SpecNode == InitNode /\ [][NextNode]_vars

-----------------------------------------------------------------------------
(* Properties of the node                                                   *)

\* the node has run at least up to the cache lookup of enhance
Ran(c) == call[c].pc # "idle"

\* C26: a failed load does not leave the node. When load_profile raised
\* FileNotFoundError, ValueError or a JSON decode error for the requested
\* name, the call is never in an error state: DEFAULT_PROFILE is stored under
\* the name and is the profile enhance_prompt works on, up to the return.
C26_LoadFailureFallsBack ==
  \A c \in Callers :
     (Ran(c) /\ call[c].load \in {"FileNotFoundError", "ValueError", "JSONDecodeError"}) =>
        /\ call[c].pc \notin {"raised", "hung"}
        /\ profile = DEFAULT_PROFILE
        /\ call[c].profile_name \in DOMAIN profile_cache
        /\ profile_cache[call[c].profile_name] = DEFAULT_PROFILE

\* a node has returned an enhanced prompt although validate_profile rejected
\* the file of the requested profile
C26_ReturnedAfterValueError ==
  \E c \in Callers :
     /\ call[c].pc = "node_returned"
     /\ call[c].load = "ValueError"
     /\ call[c].input_prompt = PromptDiver
     /\ Len(call[c].ret) > Len(PromptDiver) + 2

\* a load failure outside the three: a profile file that holds a JSON number
\* makes load_profile raise TypeError, which leaves enhance
C26_TypeErrorLeaves ==
  \E c \in Callers : call[c].pc = "raised" /\ call[c].load = "TypeError"

\* the step starts a run of node c
Starts(c) ==
  /\ NodeAtRest(c)
  /\ call'[c] # call[c]
  /\ call'[c].pc \in {"entered", "raised"}

\* C27: the cache is sticky. An entry of the cache never changes and never
\* goes; a run of any node that asks for a name with an entry does not call
\* load_profile and hands the entry to enhance_prompt, whatever the files of
\* the profiles directory hold by then.
C27_CacheSticky ==
  [][/\ \A n \in DOMAIN profile_cache :
           n \in DOMAIN profile_cache' /\ profile_cache'[n] = profile_cache[n]
     /\ \A c \in Callers :
           (Starts(c) /\ call'[c].profile_name \in DOMAIN profile_cache) =>
              /\ call'[c].load = "not called"
              /\ call'[c].pc = "entered"
              /\ profile' = profile_cache[call'[c].profile_name]]_vars

\* a run has worked on the DEFAULT_PROFILE stored after a failed load although
\* the file of the name loads by now
C27_FailedLoadNotRetried ==
  \E c \in Callers :
     /\ call[c].pc = "node_returned"
     /\ call[c].load = "not called"
     /\ profile_cache[call[c].profile_name] = DEFAULT_PROFILE
     /\ profile = DEFAULT_PROFILE
     /\ load_profile(call[c].profile_name).raised = ""

\* a run has worked on a cached profile although its file is gone
C27_ChangeNotPickedUp ==
  \E c \in Callers :
     /\ call[c].pc = "node_returned"
     /\ call[c].load = "not called"
     /\ profile_cache[call[c].profile_name] = CompactProfile
     /\ profile = CompactProfile
     /\ call[c].profile_name \notin DOMAIN profiles_dir

\* C30: enhance_prompt does not write to the profile it is given. While a call
\* is in progress no step changes the profile the call works on (its
\* templates, pools, classification, rules and anti_pairs) nor any entry of
\* the cache, be the profile the built-in DEFAULT_PROFILE or a cached one.
C30_ProfileUnchanged ==
  [][(\E c \in Callers : ~NodeAtRest(c)) =>
        /\ profile' = profile
        /\ profile_cache' = profile_cache
        /\ \A c \in Callers :
              ~NodeAtRest(c) => profile' = profile_cache[call[c].profile_name]]_vars

\* enhance_prompt has returned an enhanced prompt made from a cached profile
\* that a file and its base were merged into
C30_ReturnedOnCachedProfile ==
  \E c \in Callers :
     /\ call[c].pc = "returned"
     /\ call[c].load = "not called"
     /\ DOMAIN call[c].enhancements # {}
     /\ profile = merge_profiles(CompactProfile, ChildProfile)
     /\ profile_cache[call[c].profile_name] = profile

\* enhance_prompt has returned an enhanced prompt made from the DEFAULT_PROFILE
\* that the cache shares with the module
C30_ReturnedOnDefaultProfile ==
  \E c \in Callers :
     /\ call[c].pc = "returned"
     /\ DOMAIN call[c].enhancements # {}
     /\ profile = DEFAULT_PROFILE
     /\ profile_cache[call[c].profile_name] = DEFAULT_PROFILE

=============================================================================
